---- MODULE Spec2Model ----
(***************************************************************************)
(* tinyRacing server: the tick-driven race simulation (models/race.rs,     *)
(* models/car.rs), the command dispatcher (commands.rs), the event journal *)
(* and the race watchdog (watchdog.rs, api.rs, database/queries.rs).       *)
(*                                                                         *)
(* f32 quantities are kept as integers in fixed point: every scale is a   *)
(* named definition, and every product is divided back as soon as it is   *)
(* formed.  Clamps (min, max, clamp) are applied exactly where the source  *)
(* applies them.                                                           *)
(***************************************************************************)
EXTENDS Integers, Sequences, FiniteSets, TLC

VARIABLES
    track_laps,      \* RaceState.track.laps
    wetness,         \* RaceState.track.wetness, in 1/WetScale
    cars,            \* RaceState.cars: car number -> Car (numbers are 1..N)
    run_state,       \* RaceState.run_state
    tick_count,      \* RaceState.tick_count
    events,          \* RaceState.events (the journal), or its last JournalWindow events
    events_base,     \* number of journal events that precede those kept in `events`
    race_id,         \* RaceState.race_id: NoRace or a race id
    db_pool,         \* RaceState.db_pool is Some
    result,          \* the message kind returned by the last command
    cmd_count,       \* number of commands dispatched so far (bounded)
    forced_dnf,      \* cars whose Dnf status was set by `order <n> dnf`
    races,           \* the store's scheduled race records: id -> [status, due]
    wd_pc,           \* the watchdog's position in check_races
    has_ongoing,     \* check_races: let has_ongoing
    race_state_is_running,  \* check_races: let race_state_is_running
    wd_local,        \* the watchdog's race in hand and its race_already_loaded flag
    started_count,   \* check_races: let mut started_count
    mutex,           \* the holder of the Race State mutex, or "free"
    loop_pc,         \* the simulation loop's position inside its critical section
    tick_ord,        \* the iteration order of the tick that is under way, or <<>>
    cmd_parts,       \* the command that holds the mutex, or <<>>
    view,            \* the last RaceStateClientView taken
    sink,            \* the event writes handed to the store: [pending, stored, failed]
    experience,      \* save_race_results: the experience awarded per car, in its order
    registrations,   \* the store's registration rows: race -> number of registered teams
    api_local        \* the locals of the registration request in flight

race_vars == <<track_laps, wetness, cars, run_state, tick_count, events, events_base,
               race_id, db_pool>>
wd_vars == <<races, wd_pc, has_ongoing, race_state_is_running, wd_local, started_count>>
mx_vars == <<mutex, loop_pc, tick_ord, cmd_parts, view>>
reg_vars == <<registrations, api_local>>
vars == <<track_laps, wetness, cars, run_state, tick_count, events, events_base, race_id,
          db_pool, result, cmd_count, forced_dnf, races, wd_pc, has_ongoing,
          race_state_is_running, wd_local, started_count, mutex, loop_pc, tick_ord, cmd_parts, view,
          sink, experience, registrations, api_local>>

-----------------------------------------------------------------------------
(* Bounds of the model *)

MaxTicks == 70
MaxCommands == 2
\* the journal of a long race: events kept in `events`, and the longest journal
JournalWindow == 2
JournalMaxEvents == 65540
\* ticks of a race that runs beside the watchdog
MaxRuntimeTicks == 12
\* ticks of a race that is followed to its end
MaxRaceTicks == 200
\* ticks of a race whose critical sections are followed step by step
MaxMutexTicks == 12
\* the ticks followed beside the event sink
MaxSinkTicks == 12

-----------------------------------------------------------------------------
(* Fixed-point scales and program constants *)

StatScale == 1000          \* stats, abilities and factors: 1.0 = 1000
FuelScale == 1000          \* fuel: 1 % = 1000
WearScale == 1000          \* tire wear: 1 % = 1000
StressScale == 100000      \* stress_level: 1.0 = 100000
LapScale == 10000          \* lap_percentage: 1.0 = 10000
WetScale == 1000000        \* wetness / rain intensity: 1.0 = 1000000
FuelFull == 100            \* percent
WearMax == 100             \* percent
PitTicks == 50
PitSpeed == 30
PitLapOffset == 1          \* 0.0001 in 1/LapScale
IdModulus == 65536         \* Event.id is u16
MAX_PARTICIPANTS == 5

NoRace == "none"
\* the watchdog has no race in hand
NoLocal == [race |-> NoRace, loaded |-> FALSE]

\* no registration request is in flight
NoRequest == [op |-> "none", race |-> NoRace, status |-> "none", count |-> 0, pc |-> "idle"]
\* the scheduled races in the store
RaceIds == {"R1", "R2"}
RaceStatuses == {"REGISTRATION_OPEN", "REGISTRATION_CLOSED", "UPCOMING", "ONGOING",
                 "FINISHED", "CANCELED"}
\* start_datetime against the clock: later than now + 5 min, in (now, now + 5 min], or passed
DueClasses == {"far", "soon", "past"}
None == "None"
\* Option<f32>::None and a failed numeric parse, as integers outside every parsed value
NoFuel == 0 - 1
ParseIntError == 0 - 2

RunStates == {"Paused", "Running", "LastLap", "Finished"}
CarStatuses == {"Racing", "Pit", "Finished", "Dnf"}
TireTypes == {"Soft", "Medium", "Hard", "Intermediate", "Wet"}
DrivingStyles == {"Relax", "Normal", "Aggressive"}
EventTypes == {"StartRace", "EndRace", "PitRequest", "PitCancel", "PitStop",
               "WeatherChange", "Accident", "CarFinished", "Dnf", "Other"}

Min(a, b) == IF a < b THEN a ELSE b
Max(a, b) == IF a > b THEN a ELSE b
Clamp(x, lo, hi) == Max(lo, Min(x, hi))

-----------------------------------------------------------------------------
(* The race that is loaded: track and grid.  Loaders read stats, track     *)
(* length and laps from the store or a config file without range checks;  *)
(* the values below make fuel, wear and lap events happen within MaxTicks. *)

\* track.lap_length_km, in metres
LapLengthM == 10
\* Track.sampled_track: per sample exp(-4.62 * curvature), in 1/StatScale
SampledTrack == <<1000, 100, 800>>
\* Track.weather.state_change_time: (time in ticks, intensity in 1/WetScale)
WeatherTimeline == <<[t |-> 0, s |-> 1000000], [t |-> 600, s |-> 0]>>
\* laps of the loaded race
RaceLaps == 3

\* per car: CarStats, Driver abilities, base_performance (1/StatScale), owner
Grid == <<
    [handling |-> 500, acceleration |-> 1000, top_speed |-> 500, fuel_consumption |-> 1200000,
     tire_wear |-> 300000, base_performance |-> 1000, skill_level |-> 500, focus |-> 500,
     stress_level |-> 99900, player_owned |-> TRUE],
    [handling |-> 500, acceleration |-> 500, top_speed |-> 500, fuel_consumption |-> 55000,
     tire_wear |-> 500, base_performance |-> 950, skill_level |-> 500, focus |-> 500,
     stress_level |-> 0, player_owned |-> FALSE],
    [handling |-> 500, acceleration |-> 0, top_speed |-> 500, fuel_consumption |-> 1800000,
     tire_wear |-> 20000000, base_performance |-> 900, skill_level |-> 500, focus |-> 500,
     stress_level |-> 50000, player_owned |-> TRUE] >>

NewCar(n) ==
    [ number |-> n, tire_type |-> "Medium", wear |-> 0, fuel |-> FuelFull * FuelScale,
      driving_style |-> "Normal", status |-> "Racing", race_position |-> n,
      lap |-> 0, lap_percentage |-> 0, total_distance |-> 0, finished_time |-> 0,
      speed |-> 0, pit_request |-> FALSE, target_tire |-> None, target_fuel |-> NoFuel,
      pit_time_remaining |-> 0, stress_level |-> Grid[n].stress_level,
      player_owned |-> Grid[n].player_owned ]

LoadedCars == [n \in 1..Len(Grid) |-> NewCar(n)]

-----------------------------------------------------------------------------
(* Car::acceleration and Car::max_speed, km/h *)

StyleFactor(style) ==
    CASE style = "Relax" -> 950
      [] style = "Normal" -> 1000
      [] style = "Aggressive" -> 1050

TireTypeFactor(t) ==
    CASE t = "Soft" -> 1050
      [] t = "Medium" -> 1000
      [] t = "Hard" -> 950
      [] t = "Intermediate" -> 900
      [] t = "Wet" -> 800

acceleration(car) ==
    LET st == Grid[car.number]
        base_accel == 5 * StatScale + st.acceleration * 10
        driver_skill_factor == StatScale + st.skill_level \div 10
    IN  (((base_accel * driver_skill_factor) \div StatScale)
            * StyleFactor(car.driving_style)) \div (StatScale * StatScale)

max_speed(car) ==
    IF car.status = "Pit" THEN PitSpeed
    ELSE IF car.status \in {"Finished", "Dnf"} THEN 0
    ELSE
      LET st == Grid[car.number]
          base_top_speed == 200 + (st.top_speed * 200) \div StatScale
          tire_wear_factor == StatScale - car.wear \div (WearScale)
          fuel_factor == StatScale - car.fuel \div (FuelScale)
          driver_skill_factor == StatScale + st.skill_level \div 20
          handling_factor == 980 + st.handling \div 25
          s1 == (base_top_speed * st.base_performance) \div StatScale
          s2 == (s1 * TireTypeFactor(car.tire_type)) \div StatScale
          s3 == (s2 * tire_wear_factor) \div StatScale
          s4 == (s3 * fuel_factor) \div StatScale
          s5 == (s4 * StyleFactor(car.driving_style)) \div StatScale
          s6 == (s5 * driver_skill_factor) \div StatScale
      IN  (s6 * handling_factor) \div StatScale

-----------------------------------------------------------------------------
(* Weather::get_state_at_time and RaceState::update_weather *)

RECURSIVE Interpolate(_, _, _)
Interpolate(tl, time, i) ==
    IF i > Len(tl) - 1 THEN tl[Len(tl)].s
    ELSE IF time >= tl[i].t /\ time <= tl[i + 1].t
         THEN tl[i].s + ((tl[i + 1].s - tl[i].s) * (time - tl[i].t)) \div (tl[i + 1].t - tl[i].t)
         ELSE Interpolate(tl, time, i + 1)

get_state_at_time(tl, time) ==
    IF Len(tl) = 0 THEN WetScale \div 2
    ELSE IF time <= tl[1].t THEN tl[1].s
    ELSE IF time >= tl[Len(tl)].t THEN tl[Len(tl)].s
    ELSE Interpolate(tl, time, 1)

\* wetness change of one tick, in 1/WetScale
wetness_change(rain_chance) ==
    LET rate_at_100 == WetScale \div 1800
        rate_at_66 == WetScale \div 6000
        rate_at_0 == 0 - (WetScale \div 600)
        rate_at_50 == 0 - (WetScale \div 6000)
    IN  IF rain_chance > 660000
        THEN rate_at_66 + ((rate_at_100 - rate_at_66) * (rain_chance - 660000)) \div 340000
        ELSE IF rain_chance < 500000
        THEN rate_at_0 + ((rate_at_50 - rate_at_0) * rain_chance) \div 500000
        ELSE 0

update_weather(wet, tick) ==
    Clamp(wet + wetness_change(get_state_at_time(WeatherTimeline, tick)), 0, WetScale)

-----------------------------------------------------------------------------
(* Track::get_track_point_at_distance and the curvature factor *)

\* index (1-based) of the sample for lap_ratio: round(lap_ratio * N) mod N
TrackPointIndex(lap_ratio, n) ==
    (((2 * lap_ratio * n + LapScale) \div (2 * LapScale)) % n) + 1

curvature_factor(lap_ratio) ==
    Max(SampledTrack[TrackPointIndex(lap_ratio, Len(SampledTrack))], 150)

-----------------------------------------------------------------------------
(* ai_pit_decision *)

IsWetTire(t) == t \in {"Intermediate", "Wet"}
IsDryTire(t) == t \in {"Soft", "Medium", "Hard"}

\* a faulty variant: a damp track is treated as a dry one
BestTireWithoutIntermediate(track_wetness, laps_remaining) ==
    IF track_wetness > 650000 THEN "Wet"
    ELSE IF laps_remaining > 12 THEN "Hard"
    ELSE IF laps_remaining > 6 THEN "Medium"
    ELSE "Soft"

BestTire(track_wetness, laps_remaining) ==
    IF track_wetness > 650000 THEN "Wet"
    ELSE IF track_wetness > 200000 THEN "Intermediate"
    ELSE IF laps_remaining > 12 THEN "Hard"
    ELSE IF laps_remaining > 6 THEN "Medium"
    ELSE "Soft"

NoPit == [pit |-> FALSE, tire |-> None, fuel |-> NoFuel]

\* a faulty variant: the controller also decides for the cars of the players
ai_pit_decision_for_every_car(car, track_wetness, total_laps) ==
    IF car.pit_request \/ car.status = "Pit" THEN NoPit
    ELSE
      LET laps_remaining == Max(total_laps - car.lap, 0)
          best_tire == BestTire(track_wetness, laps_remaining)
          needs_pit == \/ car.fuel < 99 * FuelScale
                       \/ (IsWetTire(best_tire) /\ IsDryTire(car.tire_type))
                       \/ (IsWetTire(car.tire_type) /\ IsDryTire(best_tire))
      IN  IF needs_pit
          THEN [pit |-> TRUE, tire |-> best_tire, fuel |-> FuelFull * FuelScale]
          ELSE NoPit

ai_pit_decision(car, track_wetness, total_laps) ==
    IF car.player_owned \/ car.pit_request \/ car.status = "Pit" THEN NoPit
    ELSE
      LET laps_remaining == Max(total_laps - car.lap, 0)
          best_tire == BestTire(track_wetness, laps_remaining)
          needs_pit == \/ car.fuel < 99 * FuelScale
                       \/ (IsWetTire(best_tire) /\ IsDryTire(car.tire_type))
                       \/ (IsWetTire(car.tire_type) /\ IsDryTire(best_tire))
      IN  IF needs_pit
          THEN [pit |-> TRUE, tire |-> best_tire, fuel |-> FuelFull * FuelScale]
          ELSE NoPit

-----------------------------------------------------------------------------
(* The journal: create_event + push *)

PushEvent(evs, type, car_number, tick) ==
    Append(evs, [id |-> (events_base + Len(evs)) % IdModulus, event_type |-> type,
                 car_number |-> car_number, time_offset |-> tick])

-----------------------------------------------------------------------------
(* RaceState::update, the body of `for car in self.cars.values_mut()`.     *)
(* Each step takes and returns [car, events].                              *)

TireWearMultiplier(t) ==
    CASE t = "Soft" -> 15
      [] t = "Medium" -> 10
      [] t = "Hard" -> 7
      [] t = "Intermediate" -> 12
      [] t = "Wet" -> 13

\* a faulty variant: the pit stop is never completed
PitStepNeverDone(car) ==
    [car EXCEPT !.speed = PitSpeed,
                !.pit_time_remaining = IF @ > 0 THEN @ - 1 ELSE 0]

\* a faulty variant: the wear is reset even when no tire was asked for
PitStepAlwaysFreshTires(car) ==
    IF car.pit_time_remaining > 0
    THEN [car EXCEPT !.speed = PitSpeed, !.pit_time_remaining = @ - 1]
    ELSE [car EXCEPT !.speed = PitSpeed,
                     !.tire_type = IF car.target_tire # None THEN car.target_tire ELSE @,
                     !.wear = 0,
                     !.fuel = IF car.target_fuel # NoFuel
                              THEN Max(Min(car.target_fuel, FuelFull * FuelScale), car.fuel)
                              ELSE @,
                     !.target_tire = None,
                     !.target_fuel = NoFuel,
                     !.status = "Racing"]

\* status Pit: count down, then apply the targets and go back to Racing
PitStep(car) ==
    IF car.pit_time_remaining > 0
    THEN [car EXCEPT !.speed = PitSpeed, !.pit_time_remaining = @ - 1]
    ELSE [car EXCEPT !.speed = PitSpeed,
                     !.tire_type = IF car.target_tire # None THEN car.target_tire ELSE @,
                     !.wear = IF car.target_tire # None THEN 0 ELSE @,
                     !.fuel = IF car.target_fuel # NoFuel
                              THEN Max(Min(car.target_fuel, FuelFull * FuelScale), car.fuel)
                              ELSE @,
                     !.target_tire = None,
                     !.target_fuel = NoFuel,
                     !.status = "Racing"]

\* --- Handle AI input ---
AiStep(st, wet, tick) ==
    LET car == st.car
        decision == ai_pit_decision(car, wet, track_laps)
    IN  IF decision.pit
        THEN [car |-> [car EXCEPT !.pit_request = TRUE,
                                  !.target_fuel = decision.fuel,
                                  !.target_tire = decision.tire],
              events |-> IF ~car.pit_request
                         THEN PushEvent(st.events, "PitRequest", car.number, tick)
                         ELSE st.events]
        ELSE st

\* ramp up to max speed and advance along the lap
SpeedStep(car) ==
    LET top == (max_speed(car) * curvature_factor(car.lap_percentage)) \div StatScale
        speed == Min(top, car.speed + acceleration(car))
        distance_laps == (speed * LapScale) \div (36 * LapLengthM)
    IN  [car EXCEPT !.speed = speed, !.lap_percentage = @ + distance_laps]

\* a faulty variant: the request survives the pit entry
EnterPitKeepingRequest(car) ==
    [car EXCEPT !.status = "Pit", !.lap_percentage = PitLapOffset,
                !.pit_time_remaining = PitTicks]

\* the pit entry at a lap boundary
EnterPit(car) ==
    [car EXCEPT !.status = "Pit", !.lap_percentage = PitLapOffset,
                !.pit_request = FALSE, !.pit_time_remaining = PitTicks]

\* a faulty variant: the finishing tick is not recorded
FinishWithoutTime(car, tick) ==
    [car EXCEPT !.lap_percentage = 0, !.status = "Finished"]

\* a lap boundary crossed in LastLap ends the car's race
FinishOnLapBoundary(car, tick) ==
    [car EXCEPT !.lap_percentage = 0, !.status = "Finished", !.finished_time = tick]

\* while car.lap_percentage >= 1.0 { ... }
RECURSIVE LapLoop(_, _, _)
LapLoop(st, rstate, tick) ==
    IF st.car.lap_percentage < LapScale THEN st
    ELSE
      LET c1 == [st.car EXCEPT !.lap = @ + 1, !.lap_percentage = @ - LapScale]
          lastlap == rstate = "LastLap"
          c2 == IF lastlap THEN FinishOnLapBoundary(c1, tick) ELSE c1
          e2 == IF lastlap THEN PushEvent(st.events, "CarFinished", c1.number, tick)
                ELSE st.events
      IN  IF c2.pit_request /\ c2.lap < track_laps
          THEN LapLoop([car |-> EnterPit(c2),
                        events |-> PushEvent(e2, "PitStop", c2.number, tick)], rstate, tick)
          ELSE LapLoop([car |-> c2, events |-> e2], rstate, tick)

\* speed relative to the car's own max speed, as a fraction num/den (0 when den = 0)
SpeedFactorNum(car) == IF max_speed(car) > 0 THEN Max(car.speed, 0) ELSE 0
SpeedFactorDen(car) == IF max_speed(car) > 0 THEN max_speed(car) ELSE 1

FuelStep(st, tick) ==
    LET car == st.car
        base_fuel_rate == (50 + 15 * Grid[car.number].fuel_consumption) \div StatScale
        burn == (base_fuel_rate * SpeedFactorNum(car)) \div SpeedFactorDen(car)
        fuel == Max(car.fuel - burn, 0)
    IN  IF fuel = 0 /\ car.status = "Racing"
        THEN [car |-> [car EXCEPT !.fuel = fuel, !.status = "Dnf", !.finished_time = tick],
              events |-> PushEvent(st.events, "Dnf", car.number, tick)]
        ELSE [car |-> [car EXCEPT !.fuel = fuel], events |-> st.events]

\* the speed factor is the one computed for the fuel update (before a Dnf)
WearStep(car, num, den) ==
    LET base_tire_wear_rate == (20 + 8 * Grid[car.number].tire_wear) \div StatScale
        tire_wear_rate == (base_tire_wear_rate * num) \div den
        worn == (tire_wear_rate * TireWearMultiplier(car.tire_type)) \div 10
    IN  [car EXCEPT !.wear = Min(@ + worn, WearMax * WearScale)]

stress_change(car) ==
    LET focus == Grid[car.number].focus
    IN  CASE car.driving_style = "Aggressive" -> (300 * (StatScale - focus)) \div StatScale
          [] car.driving_style = "Normal" -> 0 - ((50 * focus) \div StatScale)
          [] car.driving_style = "Relax" -> 0 - ((150 * focus) \div StatScale)

\* a faulty variant: the stress level is not clamped
StressStepUnclamped(car) ==
    [car EXCEPT !.stress_level = @ + stress_change(car)]

StressStep(car) ==
    [car EXCEPT !.stress_level = Clamp(@ + stress_change(car), 0, StressScale)]

DistanceStep(car) ==
    IF car.status \in {"Racing", "Pit"}
    THEN [car EXCEPT !.total_distance = car.lap * LapScale + car.lap_percentage]
    ELSE car

\* the part of the loop body after the lap loop
PhysicsStep(st, tick) ==
    LET num == SpeedFactorNum(st.car)
        den == SpeedFactorDen(st.car)
        f == FuelStep(st, tick)
    IN  [car |-> DistanceStep(StressStep(WearStep(f.car, num, den))), events |-> f.events]

UpdateCar(car, evs, rstate, wet, tick) ==
    IF car.status \in {"Dnf", "Finished"}
    THEN [car |-> IF car.status = "Finished"
                  THEN [car EXCEPT !.total_distance = car.lap * LapScale]
                  ELSE car,
          events |-> evs]
    ELSE IF car.status = "Pit"
    THEN [car |-> PitStep(car), events |-> evs]
    ELSE
      LET a == AiStep([car |-> car, events |-> evs], wet, tick)
          l == LapLoop([car |-> SpeedStep(a.car), events |-> a.events], rstate, tick)
      IN  PhysicsStep(l, tick)

-----------------------------------------------------------------------------
(* compare_cars and positions.sort_by: the stable sort of a short slice    *)
(* is an insertion sort that shifts an element left while it is Less than  *)
(* its left neighbour.                                                     *)

CmpDesc(x, y) == IF y < x THEN "Less" ELSE IF y > x THEN "Greater" ELSE "Equal"
CmpAsc(x, y) == IF x < y THEN "Less" ELSE IF x > y THEN "Greater" ELSE "Equal"

compare_cars(a, b) ==
    IF a.status = "Finished" /\ b.status = "Finished"
    THEN IF a.lap > b.lap THEN "Less"
         ELSE IF a.lap < b.lap THEN "Greater"
         ELSE CmpAsc(a.finished_time, b.finished_time)
    ELSE IF a.status = "Dnf" /\ b.status = "Dnf"
    THEN CmpDesc(a.total_distance, b.total_distance)
    ELSE IF b.status = "Dnf" THEN "Less"
    ELSE IF a.status = "Dnf" THEN "Greater"
    ELSE CmpDesc(a.total_distance, b.total_distance)

RECURSIVE InsertTail(_, _)
\* s is sorted but for its last element, which is shifted left into place
InsertTail(s, i) ==
    IF i > 1 /\ compare_cars(s[i], s[i - 1]) = "Less"
    THEN InsertTail([s EXCEPT ![i - 1] = s[i], ![i] = s[i - 1]], i - 1)
    ELSE s

RECURSIVE SortCars(_, _)
SortCars(s, k) ==
    IF k > Len(s) THEN s
    ELSE SortCars(InsertTail(SubSeq(s, 1, k), k) \o SubSeq(s, k + 1, Len(s)), k + 1)

\* a faulty variant: the 0-based index is assigned
AssignIndexes(cs, sorted) ==
    [n \in DOMAIN cs |->
        [cs[n] EXCEPT !.race_position = (CHOOSE i \in 1..Len(sorted) : sorted[i].number = n) - 1]]

\* car number -> 1-based index in the sorted order
AssignPositions(cs, sorted) ==
    [n \in DOMAIN cs |->
        [cs[n] EXCEPT !.race_position = CHOOSE i \in 1..Len(sorted) : sorted[i].number = n]]

-----------------------------------------------------------------------------
(* update_race_finished *)

RECURSIVE FinishLoop(_, _, _, _)
\* acc = [cars, events, race_finished, someone_finished, tot_done]
FinishLoop(acc, ord, i, tick) ==
    IF i > Len(ord) THEN acc
    ELSE
      LET car == acc.cars[ord[i]]
      IN  IF car.status = "Finished"
          THEN FinishLoop([acc EXCEPT !.someone_finished = TRUE, !.tot_done = @ + 1],
                          ord, i + 1, tick)
          ELSE IF car.lap >= track_laps
          THEN FinishLoop([acc EXCEPT
                              !.cars[ord[i]] = [car EXCEPT !.status = "Finished",
                                                           !.total_distance = car.lap * LapScale,
                                                           !.finished_time = tick],
                              !.events = PushEvent(@, "CarFinished", car.number, tick),
                              !.someone_finished = TRUE,
                              !.tot_done = @ + 1],
                          ord, i + 1, tick)
          ELSE IF car.status \in {"Racing", "Pit"}
          THEN FinishLoop([acc EXCEPT !.race_finished = FALSE], ord, i + 1, tick)
          ELSE IF car.status = "Dnf"
          THEN FinishLoop([acc EXCEPT !.tot_done = @ + 1], ord, i + 1, tick)
          ELSE FinishLoop(acc, ord, i + 1, tick)

\* a faulty variant: a race with every car done goes back to Paused
FinishRunStatePaused(acc, rstate) ==
    IF acc.tot_done = Len(acc.ord) THEN "Paused"
    ELSE IF acc.someone_finished
         THEN IF acc.race_finished THEN "Finished" ELSE "LastLap"
         ELSE rstate

\* a faulty variant: the first finisher always opens a last lap
FinishRunStateViaLastLap(acc, rstate) ==
    IF acc.someone_finished /\ rstate = "Running" THEN "LastLap"
    ELSE IF acc.tot_done = Len(acc.ord) THEN "Finished"
    ELSE IF acc.someone_finished
         THEN IF acc.race_finished THEN "Finished" ELSE "LastLap"
         ELSE rstate

FinishRunState(acc, rstate) ==
    IF acc.tot_done = Len(acc.ord) THEN "Finished"
    ELSE IF acc.someone_finished
         THEN IF acc.race_finished THEN "Finished" ELSE "LastLap"
         ELSE rstate

update_race_finished(cs, evs, ord, rstate, tick) ==
    LET acc == FinishLoop([cars |-> cs, events |-> evs, race_finished |-> TRUE,
                           someone_finished |-> FALSE, tot_done |-> 0, ord |-> ord],
                          ord, 1, tick)
    IN  [cars |-> acc.cars, events |-> acc.events, run_state |-> FinishRunState(acc, rstate)]

-----------------------------------------------------------------------------
(* RaceState::update *)

\* the iteration orders of the HashMap: every order of the car numbers
Orders(cs) ==
    {o \in [1..Cardinality(DOMAIN cs) -> DOMAIN cs] :
        \A i, j \in DOMAIN o : i # j => o[i] # o[j]}

RECURSIVE CarLoop(_, _, _, _, _, _)
\* acc = [cars, events]
CarLoop(acc, ord, i, rstate, wet, tick) ==
    IF i > Len(ord) THEN acc
    ELSE
      LET u == UpdateCar(acc.cars[ord[i]], acc.events, rstate, wet, tick)
      IN  CarLoop([cars |-> [acc.cars EXCEPT ![ord[i]] = u.car], events |-> u.events],
                  ord, i + 1, rstate, wet, tick)

\* the writes of update(): the tick counter, the weather, the cars, the journal and
\* the run state
StoreUpdate(fin, wet, tick) ==
    /\ tick_count' = tick
    /\ wetness' = wet
    /\ cars' = fin.cars
    /\ events' = fin.events
    /\ run_state' = fin.run_state

\* after the car loop: sort the positions, assign them, update_race_finished
SortAndFinish(loop, ord, tick) ==
    update_race_finished(
        AssignPositions(loop.cars, SortCars([i \in 1..Len(ord) |-> loop.cars[ord[i]]], 2)),
        loop.events, ord, run_state, tick)

\* after the weather update: the car loop, then the positions and the finish
UpdateCars(ord, wet, tick) ==
    StoreUpdate(SortAndFinish(CarLoop([cars |-> cars, events |-> events],
                                      ord, 1, run_state, wet, tick),
                              ord, tick),
                wet, tick)

update(ord) ==
    UpdateCars(ord, update_weather(wetness, tick_count + 1), tick_count + 1)

\* what save_event_to_db hands over for an event
WriteOf(ev) ==
    [race |-> race_id, id |-> ev.id, event_type |-> ev.event_type,
     time_offset |-> ev.time_offset]

\* if let (Some(pool), Some(race_id)) = (self.db_pool.clone(), self.race_id)
\*     { save_event_to_db(pool, event.clone(), race_id) }
\* for the events that make the journal `evs` out of `events`
Dispatched(evs) ==
    IF db_pool /\ race_id # NoRace
    THEN [sink EXCEPT !.pending = @ \cup {WriteOf(evs[i]) : i \in (Len(events) + 1)..Len(evs)}]
    ELSE sink

\* a faulty variant: no early return, the clock also counts outside a race
TickWithinCountingAlways(bound) ==
    /\ result' = "Tick"
    /\ UNCHANGED <<track_laps, race_id, db_pool, events_base, cmd_count, forced_dnf>>
    /\ UNCHANGED wd_vars
    /\ UNCHANGED mx_vars
    /\ tick_count < bound
    /\ IF run_state \in {"Running", "LastLap"}
       THEN \E ord \in Orders(cars) : update(ord)
       ELSE /\ tick_count' = tick_count + 1
            /\ UNCHANGED <<wetness, cars, run_state, events>>
    /\ sink' = Dispatched(events')
    /\ UNCHANGED <<experience, reg_vars>>

\* one period of the simulation loop, while the tick counter is below `bound`
TickWithin(bound) ==
    /\ result' = "Tick"
    /\ UNCHANGED <<track_laps, race_id, db_pool, events_base, cmd_count, forced_dnf>>
    /\ UNCHANGED wd_vars
    /\ UNCHANGED mx_vars
    /\ IF run_state \in {"Running", "LastLap"}
       THEN /\ tick_count < bound
            /\ \E ord \in Orders(cars) : update(ord)
       ELSE UNCHANGED <<wetness, cars, run_state, tick_count, events>>
    /\ sink' = Dispatched(events')
    /\ UNCHANGED <<experience, reg_vars>>

\* one period of the simulation loop
Tick == TickWithin(MaxTicks)

-----------------------------------------------------------------------------
(* commands.rs: handle_command and handle_pit_command.  A command is the   *)
(* sequence of its whitespace-separated words.                             *)

ParseError == "Err"

\* str::parse::<u32>
ParseU32(w) ==
    CASE w = "1" -> 1
      [] w = "2" -> 2
      [] w = "3" -> 3
      [] w = "99" -> 99
      [] w = "0" -> 0
      [] w = "50" -> 50
      [] w = "100" -> 100
      [] w = "150" -> 150
      [] OTHER -> ParseIntError

\* str::parse::<f32>, in 1/FuelScale
ParseF32(w) ==
    CASE w = "-1" -> 0 - FuelScale
      [] ParseU32(w) # ParseIntError -> ParseU32(w) * FuelScale
      [] OTHER -> ParseIntError

\* str::to_lowercase
ToLower(w) ==
    CASE w = "SOFT" -> "soft"
      [] w = "Aggressive" -> "aggressive"
      [] w = "DNF" -> "dnf"
      [] OTHER -> w

ParseTire(w) ==
    CASE w = "soft" -> "Soft"
      [] w = "medium" -> "Medium"
      [] w = "hard" -> "Hard"
      [] w \in {"intermediate", "inter"} -> "Intermediate"
      [] w = "wet" -> "Wet"
      [] OTHER -> ParseError

ParseStyle(w) ==
    CASE w = "relax" -> "Relax"
      [] w = "normal" -> "Normal"
      [] w = "aggressive" -> "Aggressive"
      [] OTHER -> ParseError

\* what a command returns: the new cars, run_state, forced Dnf set and the message
Outcome(cs, rs, fd, msg) == [cars |-> cs, run_state |-> rs, forced_dnf |-> fd, msg |-> msg]
\* a faulty variant: a rejected command still clears every pit request
RejectedClearingPits(msg) ==
    Outcome([n \in DOMAIN cars |-> [cars[n] EXCEPT !.pit_request = FALSE]], run_state,
            forced_dnf, msg)
Rejected(msg) == Outcome(cars, run_state, forced_dnf, msg)

\* a faulty variant: the style is set on every car
OrderCommandAllCars(car_num_str, style_str) ==
    LET car_num == ParseU32(car_num_str)
        style == ToLower(style_str)
    IN  IF car_num = ParseIntError THEN Rejected("Invalid car number")
        ELSE IF car_num \notin DOMAIN cars THEN Rejected("Car number not found")
        ELSE IF style = "dnf"
        THEN Outcome([cars EXCEPT ![car_num].status = "Dnf"], run_state,
                     forced_dnf \cup {car_num}, "Car set to DNF")
        ELSE IF ParseStyle(style) # ParseError
        THEN Outcome([n \in DOMAIN cars |-> [cars[n] EXCEPT !.driving_style = ParseStyle(style)]],
                     run_state, forced_dnf, "Driving style set")
        ELSE Rejected("Invalid driving style")

OrderCommand(car_num_str, style_str) ==
    LET car_num == ParseU32(car_num_str)
        style == ToLower(style_str)
    IN  IF car_num = ParseIntError THEN Rejected("Invalid car number")
        ELSE IF car_num \notin DOMAIN cars THEN Rejected("Car number not found")
        ELSE IF style = "dnf"
        THEN Outcome([cars EXCEPT ![car_num].status = "Dnf"], run_state,
                     forced_dnf \cup {car_num}, "Car set to DNF")
        ELSE IF ParseStyle(style) # ParseError
        THEN Outcome([cars EXCEPT ![car_num].driving_style = ParseStyle(style)], run_state,
                     forced_dnf, "Driving style set")
        ELSE Rejected("Invalid driving style")

\* tire_str_opt / fuel_str_opt are None when the command has no such word
handle_pit_command(car_num_str, tire_str_opt, fuel_str_opt) ==
    LET car_num == ParseU32(car_num_str)
        target_tire == IF tire_str_opt = None THEN None ELSE ParseTire(ToLower(tire_str_opt))
        target_fuel == IF fuel_str_opt = None THEN NoFuel ELSE ParseF32(fuel_str_opt)
    IN  IF car_num = ParseIntError THEN Rejected("Invalid car number")
        ELSE IF car_num \notin DOMAIN cars THEN Rejected("Car number not found")
        ELSE IF target_tire = ParseError THEN Rejected("Invalid target tire type")
        ELSE IF target_fuel = ParseIntError THEN Rejected("Invalid target fuel level")
        ELSE IF target_fuel # NoFuel /\ ~(target_fuel >= 0 /\ target_fuel <= FuelFull * FuelScale)
        THEN Rejected("Invalid target fuel level")
        ELSE IF target_tire = None /\ target_fuel = NoFuel
        THEN Rejected("Pit stop request must specify an operation")
        ELSE Outcome([cars EXCEPT ![car_num].pit_request = TRUE,
                                  ![car_num].target_tire = target_tire,
                                  ![car_num].target_fuel = target_fuel],
                     run_state, forced_dnf, "Car queued for pit stop")

handle_command(parts) ==
    IF parts = <<"start">>
    THEN IF run_state = "Paused"
         THEN Outcome(cars, "Running", forced_dnf, "Race started!")
         ELSE Rejected("Race is already running or finished.")
    ELSE IF parts = <<"pause">>
    THEN IF run_state = "Running"
         THEN Outcome(cars, "Paused", forced_dnf, "Race paused.")
         ELSE Rejected("Race is not running.")
    ELSE IF parts = <<"stop">>
    THEN Outcome(cars, "Finished", forced_dnf, "Race stopped/finished manually.")
    ELSE IF Len(parts) = 3 /\ parts[1] = "order"
    THEN OrderCommand(parts[2], parts[3])
    ELSE IF Len(parts) = 5 /\ parts[1] = "pit" /\ parts[4] = "refuel"
    THEN handle_pit_command(parts[2], parts[3], parts[5])
    ELSE IF Len(parts) = 5 /\ parts[1] = "pit" /\ parts[3] = "refuel"
    THEN handle_pit_command(parts[2], parts[5], parts[4])
    ELSE IF Len(parts) = 3 /\ parts[1] = "pit"
    THEN handle_pit_command(parts[2], parts[3], None)
    ELSE IF Len(parts) = 4 /\ parts[1] = "pit" /\ parts[3] = "refuel"
    THEN handle_pit_command(parts[2], None, parts[4])
    ELSE IF Len(parts) = 2 /\ parts[1] = "pit"
    THEN Rejected("Invalid pit command")
    ELSE Rejected("Unknown command")

\* the commands the environment issues
Commands == {
    <<"start">>, <<"pause">>, <<"stop">>,
    <<"order", "1", "relax">>, <<"order", "1", "Aggressive">>, <<"order", "1", "dnf">>,
    <<"order", "2", "DNF">>, <<"order", "99", "relax">>, <<"order", "abc", "relax">>,
    <<"order", "1", "fast">>,
    <<"pit", "1", "SOFT">>, <<"pit", "1", "refuel", "50">>, <<"pit", "1", "wet", "refuel", "100">>,
    <<"pit", "1", "refuel", "0", "hard">>, <<"pit", "2", "inter">>,
    <<"pit", "1", "slick">>, <<"pit", "1", "refuel", "150">>, <<"pit", "1", "refuel", "abc">>,
    <<"pit", "1", "soft", "refuel", "-1">>, <<"pit", "99", "soft">>, <<"pit", "abc", "soft">>,
    <<"pit", "1", "refuel">>, <<"pit", "1">>,
    <<"nopit", "1">>, <<"status", "1">>, <<"start", "now">> }

CommandWithin(bound, parts) ==
    /\ cmd_count < bound
    /\ cmd_count' = cmd_count + 1
    /\ LET out == handle_command(parts)
       IN  /\ cars' = out.cars
           /\ run_state' = out.run_state
           /\ forced_dnf' = out.forced_dnf
           /\ result' = out.msg
    /\ UNCHANGED <<track_laps, wetness, tick_count, events, events_base, race_id, db_pool>>
    /\ UNCHANGED wd_vars
    /\ UNCHANGED <<mx_vars, sink, experience, reg_vars>>

Command(parts) == CommandWithin(MaxCommands, parts)

-----------------------------------------------------------------------------
(* The race simulation: a race loaded from a configuration, the simulation *)
(* loop and the command source.                                            *)

Init ==
    /\ track_laps = RaceLaps
    /\ wetness = 0
    /\ cars = LoadedCars
    /\ run_state = "Paused"
    /\ tick_count = 0
    /\ events = <<>>
    /\ events_base = 0
    /\ race_id = NoRace
    /\ db_pool = FALSE
    /\ result = "None"
    /\ cmd_count = 0
    /\ forced_dnf = {}
    /\ races = [r \in RaceIds |-> [status |-> "REGISTRATION_OPEN", due |-> "far"]]
    /\ wd_pc = "idle"
    /\ has_ongoing = FALSE
    /\ race_state_is_running = FALSE
    /\ wd_local = NoLocal
    /\ started_count = 0
    /\ mutex = "free"
    /\ loop_pc = "idle"
    /\ tick_ord = <<>>
    /\ cmd_parts = <<>>
    /\ view = [elapsed |-> 0, race_status |-> "Paused", current_lap |-> 0]
    /\ sink = [pending |-> {}, stored |-> {}, failed |-> {}, rows |-> <<>>]
    /\ experience = <<>>
    /\ registrations = [r \in RaceIds |-> 0]
    /\ api_local = NoRequest

Next ==
    \/ Tick
    \/ \E parts \in Commands : Command(parts)

Spec == Init /\ [][Next]_vars

\* a race that is started and then neither paused nor stopped; the simulation loop runs
\* on its interval for as long as the server lives
RaceCommands == Commands \ {<<"pause">>, <<"stop">>}

RaceTick == TickWithin(MaxRaceTicks)

NextRace ==
    \/ RaceTick
    \/ \E parts \in RaceCommands : Command(parts)

\* ENABLED <<RaceTick>>_vars, written out: a running race ticks below the bound, and
\* outside a race the tick only sets the result
TickEnabled ==
    IF run_state \in {"Running", "LastLap"} THEN tick_count < MaxRaceTicks ELSE result # "Tick"

\* weak fairness of the tick: the interval of the simulation loop keeps firing
TickFairness == ([]<>~TickEnabled) \/ ([]<><<RaceTick>>_vars)

SpecRace == Init /\ [][NextRace]_vars /\ TickFairness

\* a race whose cars are retired by order while it runs: more orders than in Spec, fewer
\* kinds of command
MaxRetireCommands == 3

MaxRetireTicks == 24

RetireCommands == {<<"start">>, <<"order", "2", "DNF">>, <<"order", "3", "dnf">>}

RetireTick == TickWithin(MaxRetireTicks)

RetireCommand(parts) == CommandWithin(MaxRetireCommands, parts)

NextRetire ==
    \/ RetireTick
    \/ \E parts \in RetireCommands : RetireCommand(parts)

SpecRetire == Init /\ [][NextRetire]_vars

\* a race in which the player of car 1 asks for pit stops, while the car races and while
\* it stands in the pit
MaxPitCommands == 3
MaxPitTicks == 130
PitCommands == {<<"start">>, <<"pit", "1", "SOFT">>, <<"pit", "1", "refuel", "50">>}

PitTick == TickWithin(MaxPitTicks)

PitCommand(parts) == CommandWithin(MaxPitCommands, parts)

NextPit ==
    \/ PitTick
    \/ \E parts \in PitCommands : PitCommand(parts)

SpecPit == Init /\ [][NextPit]_vars

-----------------------------------------------------------------------------
(* The scheduled races: watchdog.rs, api.rs start_race_now and the store.  *)
(* The store's selection queries and the persistence of a natural finish   *)
(* are not in the sources at hand; they follow the store contract.         *)

RegistrationStatuses == {"REGISTRATION_OPEN", "REGISTRATION_CLOSED"}

\* cars of a race loaded from the store: process_team_for_race sets stress_level 0.0
ScheduledCars == [n \in 1..Len(Grid) |-> [NewCar(n) EXCEPT !.stress_level = 0]]

\* the store's selection queries
get_races_to_cancel == {r \in RaceIds : races[r].due = "past"
                                        /\ races[r].status \in RegistrationStatuses}
get_races_to_mark_upcoming == {r \in RaceIds : races[r].due = "soon"
                                               /\ races[r].status \in RegistrationStatuses}
get_races_to_start(rs) == {r \in RaceIds : rs[r].due = "past"
                                            /\ rs[r].status \in {"UPCOMING", "REGISTRATION_CLOSED"}}
get_upcoming_races(rs) == {r \in RaceIds : rs[r].status = "UPCOMING"}
has_ongoing_race(rs) == \E r \in RaceIds : rs[r].status = "ONGOING"

\* queries.rs update_race_status and start_race (start_datetime = now)
update_race_status(rs, r, status) == [rs EXCEPT ![r].status = status]
\* a faulty variant: the update is not restricted to the race's id
start_race_db_unrestricted(rs, r) ==
    [q \in RaceIds |-> [rs[q] EXCEPT !.status = "ONGOING", !.due = "past"]]
start_race_db(rs, r) == [rs EXCEPT ![r].status = "ONGOING", ![r].due = "past"]
finish_race(rs, r) == [rs EXCEPT ![r].status = "FINISHED"]

\* the run_state after handle_command("start")
StartedRunState(rs) == IF rs = "Paused" THEN "Running" ELSE rs
StartedMessage(rs) ==
    IF rs = "Paused" THEN "Race started!" ELSE "Race is already running or finished."

\* the watchdog's log lines
LoadedMessage == "Race loaded as UPCOMING (paused)"
LoadFailedMessage == "Failed to load upcoming race"
StartFailedMessage == "Failed to start race"

\* a faulty variant: the clock and the journal of the replaced race are kept
ReplaceRaceStateKeepingClock(r, rs) ==
    /\ race_id' = r
    /\ db_pool' = TRUE
    /\ run_state' = rs
    /\ track_laps' = RaceLaps
    /\ wetness' = 0
    /\ cars' = ScheduledCars
    /\ UNCHANGED <<tick_count, events, events_base, forced_dnf>>

\* *race_state_guard = new_race_state, for a race loaded by load_scheduled_race
ReplaceRaceState(r, rs) ==
    /\ race_id' = r
    /\ db_pool' = TRUE
    /\ run_state' = rs
    /\ track_laps' = RaceLaps
    /\ wetness' = 0
    /\ cars' = ScheduledCars
    /\ tick_count' = 0
    /\ events' = <<>>
    /\ events_base' = 0
    /\ forced_dnf' = {}

KeepRaceState ==
    UNCHANGED <<race_id, db_pool, run_state, track_laps, wetness, cars, tick_count, events,
                events_base, forced_dnf>>

\* a faulty variant: the pass skips the cancellations
WatchdogCancelNothing ==
    /\ wd_pc = "idle"
    /\ wd_pc' = "promote"
    /\ started_count' = 0
    /\ KeepRaceState
    /\ UNCHANGED <<races, has_ongoing, race_state_is_running, wd_local, result, cmd_count>>
    /\ UNCHANGED <<mx_vars, sink, experience, reg_vars>>

\* check_races, step 1: cancel the races that passed their start time
WatchdogCancel ==
    /\ wd_pc = "idle"
    /\ wd_pc' = "promote"
    /\ started_count' = 0
    /\ races' = [r \in RaceIds |-> IF r \in get_races_to_cancel
                                   THEN [races[r] EXCEPT !.status = "CANCELED"]
                                   ELSE races[r]]
    /\ KeepRaceState
    /\ UNCHANGED <<has_ongoing, race_state_is_running, wd_local, result, cmd_count>>
    /\ UNCHANGED <<mx_vars, sink, experience, reg_vars>>

\* check_races, step 2: mark UPCOMING and load; `shown` is the last race whose load
\* succeeded (NoRace when none did), and `result` keeps the step's log: "loaded" when a
\* load succeeded, the error when every load failed
WatchdogPromote ==
    /\ wd_pc = "promote"
    /\ wd_pc' = "check"
    /\ races' = [r \in RaceIds |-> IF r \in get_races_to_mark_upcoming
                                   THEN [races[r] EXCEPT !.status = "UPCOMING"]
                                   ELSE races[r]]
    /\ \E shown \in get_races_to_mark_upcoming \cup {NoRace} :
          IF shown # NoRace
          THEN ReplaceRaceState(shown, "Paused") /\ result' = LoadedMessage
          ELSE /\ KeepRaceState
               /\ result' = IF get_races_to_mark_upcoming # {} THEN LoadFailedMessage
                                                                ELSE result
    /\ UNCHANGED <<has_ongoing, race_state_is_running, wd_local, started_count, cmd_count>>
    /\ UNCHANGED <<mx_vars, sink, experience, reg_vars>>

\* check_races: the two guards of step 3 are read
WatchdogCheck ==
    /\ wd_pc = "check"
    /\ wd_pc' = "start"
    /\ has_ongoing' = has_ongoing_race(races)
    /\ race_state_is_running' = (run_state \in {"Running", "LastLap"})
    /\ KeepRaceState
    /\ UNCHANGED <<races, wd_local, started_count, result, cmd_count>>
    /\ UNCHANGED <<mx_vars, sink, experience, reg_vars>>

\* a faulty variant: the race is marked ONGOING before it is loaded
WatchdogStartRaceMarksFirst(r, loaded) ==
    IF race_id = r \/ loaded
    THEN /\ races' = start_race_db(races, r)
         /\ IF race_id = r
            THEN /\ run_state' = StartedRunState(run_state)
                 /\ result' = StartedMessage(run_state)
                 /\ UNCHANGED <<race_id, db_pool, track_laps, wetness, cars, tick_count,
                                events, events_base, forced_dnf>>
            ELSE /\ ReplaceRaceState(r, StartedRunState("Paused"))
                 /\ result' = StartedMessage("Paused")
         /\ started_count' = started_count + 1
    ELSE /\ races' = start_race_db(races, r)
         /\ KeepRaceState
         /\ result' = StartFailedMessage
         /\ UNCHANGED started_count

\* RaceWatchdog::start_race; loaded is FALSE when load_scheduled_race fails
WatchdogStartRace(r, loaded) ==
    IF race_id = r
    THEN /\ races' = start_race_db(races, r)
         /\ run_state' = StartedRunState(run_state)
         /\ result' = StartedMessage(run_state)
         /\ started_count' = started_count + 1
         /\ UNCHANGED <<race_id, db_pool, track_laps, wetness, cars, tick_count, events,
                        events_base, forced_dnf>>
    ELSE IF loaded
    THEN /\ races' = start_race_db(races, r)
         /\ ReplaceRaceState(r, StartedRunState("Paused"))
         /\ result' = StartedMessage("Paused")
         /\ started_count' = started_count + 1
    ELSE /\ KeepRaceState
         /\ result' = StartFailedMessage
         /\ UNCHANGED <<races, started_count>>

\* check_races, step 3: start the first race that is due
WatchdogStart ==
    /\ wd_pc = "start"
    /\ wd_pc' = "resync"
    /\ IF ~has_ongoing /\ ~race_state_is_running /\ get_races_to_start(races) # {}
       THEN \E r \in get_races_to_start(races), loaded \in BOOLEAN : WatchdogStartRace(r, loaded)
       ELSE /\ KeepRaceState
            /\ UNCHANGED <<races, result, started_count>>
    /\ UNCHANGED <<has_ongoing, race_state_is_running, wd_local, cmd_count>>
    /\ UNCHANGED <<mx_vars, sink, experience, reg_vars>>

\* check_races, step 4: show an UPCOMING race that is not the loaded one
WatchdogResync ==
    /\ wd_pc = "resync"
    /\ wd_pc' = "idle"
    /\ IF ~race_state_is_running /\ get_upcoming_races(races) # {}
       THEN \E r \in get_upcoming_races(races), loaded \in BOOLEAN :
               IF race_id = r
               THEN KeepRaceState /\ UNCHANGED result
               ELSE IF loaded
               THEN ReplaceRaceState(r, "Paused") /\ result' = LoadedMessage
               ELSE KeepRaceState /\ result' = LoadFailedMessage
       ELSE KeepRaceState /\ UNCHANGED result
    /\ UNCHANGED <<races, has_ongoing, race_state_is_running, wd_local, started_count, cmd_count>>
    /\ UNCHANGED <<mx_vars, sink, experience, reg_vars>>

\* api.rs start_race_now; a failed load returns the error before anything is written
StartRaceNow(r) ==
    /\ \E loaded \in BOOLEAN :
          IF loaded
          THEN /\ races' = start_race_db(races, r)
               /\ ReplaceRaceState(r, StartedRunState("Paused"))
               /\ result' = StartedMessage("Paused")
          ELSE /\ KeepRaceState
               /\ result' = "Failed to load race"
               /\ UNCHANGED races
    /\ UNCHANGED <<wd_pc, has_ongoing, race_state_is_running, wd_local, started_count, cmd_count>>
    /\ UNCHANGED <<mx_vars, sink, experience, reg_vars>>

\* register_for_race: a registration that comes after the start time, or the one that
\* reaches MAX_PARTICIPANTS, closes the race
CloseRegistration(r) ==
    /\ races[r].status = "REGISTRATION_OPEN"
    /\ races' = update_race_status(races, r, "REGISTRATION_CLOSED")
    /\ KeepRaceState
    /\ UNCHANGED <<wd_pc, has_ongoing, race_state_is_running, wd_local, started_count, result, cmd_count>>
    /\ UNCHANGED <<mx_vars, sink, experience, reg_vars>>

\* the loaded race runs to its natural finish and the runtime persists FINISHED
RaceCompletes ==
    /\ run_state \in {"Running", "LastLap"}
    /\ run_state' = "Finished"
    /\ races' = IF race_id # NoRace /\ db_pool THEN finish_race(races, race_id) ELSE races
    /\ UNCHANGED <<race_id, db_pool, track_laps, wetness, cars, tick_count, events,
                   events_base, forced_dnf>>
    /\ UNCHANGED <<wd_pc, has_ongoing, race_state_is_running, wd_local, started_count, result, cmd_count>>
    /\ UNCHANGED <<mx_vars, sink, experience, reg_vars>>

\* the clock reaches now + 5 min before the start, then the start
TimePasses(r) ==
    /\ races[r].due # "past"
    /\ races' = [races EXCEPT ![r].due = IF @ = "far" THEN "soon" ELSE "past"]
    /\ KeepRaceState
    /\ UNCHANGED <<wd_pc, has_ongoing, race_state_is_running, wd_local, started_count, result, cmd_count>>
    /\ UNCHANGED <<mx_vars, sink, experience, reg_vars>>

WatchdogPass ==
    \/ WatchdogCancel
    \/ WatchdogPromote
    \/ WatchdogCheck
    \/ WatchdogStart
    \/ WatchdogResync

\* the watchdog task, the clock, registrations, the race runtime and the start and stop
\* requests of the API
NextWatchdog ==
    \/ WatchdogPass
    \/ \E parts \in {<<"start">>, <<"stop">>} : Command(parts)
    \/ \E r \in RaceIds : TimePasses(r)
    \/ \E r \in RaceIds : CloseRegistration(r)
    \/ RaceCompletes

SpecWatchdog == Init /\ [][NextWatchdog]_vars

\* the same with the start-now requests of the API
NextScheduler ==
    \/ NextWatchdog
    \/ \E r \in RaceIds : StartRaceNow(r)

SpecScheduler == Init /\ [][NextScheduler]_vars

\* the first ticks of the loaded race, beside the watchdog
RuntimeTick ==
    /\ tick_count < MaxRuntimeTicks
    /\ Tick

\* the watchdog task, the clock, the start request and the simulation loop
NextRuntime ==
    \/ WatchdogPass
    \/ \E r \in RaceIds : TimePasses(r)
    \/ Command(<<"start">>)
    \/ RuntimeTick

SpecRuntime == Init /\ [][NextRuntime]_vars

\* the watchdog with a store whose operations succeed: the steps of a pass with the
\* loads that fail left out
PromoteLoads == WatchdogPromote /\ result' # LoadFailedMessage
StartLoads == WatchdogStart /\ result' # StartFailedMessage
ResyncLoads == WatchdogResync /\ result' # LoadFailedMessage

PassThatSucceeds ==
    \/ WatchdogCancel
    \/ PromoteLoads
    \/ WatchdogCheck
    \/ StartLoads
    \/ ResyncLoads

\* the watchdog task, the clock and the simulation loop, with no command at all
NextSchedule ==
    \/ PassThatSucceeds
    \/ \E r \in RaceIds : TimePasses(r)
    \/ RaceCompletes

\* the interval of the watchdog keeps firing (a step of the pass is enabled in every
\* state), and so does the interval of the simulation loop: a race that stays running
\* completes
SpecSchedule ==
    Init /\ [][NextSchedule]_vars /\ WF_vars(PassThatSucceeds) /\ WF_vars(RaceCompletes)

-----------------------------------------------------------------------------
(* The registration requests: api.rs register_for_race and                 *)
(* unregister_from_race, one request in flight beside the watchdog.  Every *)
(* await of a handler is a step of its own; api_local keeps what the       *)
(* handler has read.                                                       *)

\* what a step of a handler leaves alone
ApiFrame ==
    /\ KeepRaceState
    /\ UNCHANGED <<wd_pc, has_ongoing, race_state_is_running, wd_local, started_count, result,
                   cmd_count>>
    /\ UNCHANGED <<mx_vars, sink, experience>>

\* register_for_race: get_race_by_id and the check of the status just read
RegisterRead(r) ==
    /\ api_local.pc = "idle"
    /\ api_local' = IF races[r].status # "REGISTRATION_OPEN"
                    THEN NoRequest
                    ELSE [op |-> "register", race |-> r, status |-> races[r].status,
                          count |-> 0, pc |-> "start_time"]
    /\ UNCHANGED <<races, registrations>>
    /\ ApiFrame

\* register_for_race: a race whose start time is past is closed and the request refused
RegisterStartTime ==
    /\ api_local.op = "register" /\ api_local.pc = "start_time"
    /\ IF races[api_local.race].due = "past"
       THEN /\ races' = update_race_status(races, api_local.race, "REGISTRATION_CLOSED")
            /\ api_local' = NoRequest
       ELSE /\ api_local' = [api_local EXCEPT !.pc = "count"]
            /\ UNCHANGED races
    /\ UNCHANGED registrations
    /\ ApiFrame

\* register_for_race: count_registrations_by_race; a full race refuses the request
RegisterCount ==
    /\ api_local.op = "register" /\ api_local.pc = "count"
    /\ api_local' = IF registrations[api_local.race] >= MAX_PARTICIPANTS
                    THEN NoRequest
                    ELSE [api_local EXCEPT !.count = registrations[api_local.race],
                                           !.pc = "create"]
    /\ UNCHANGED <<races, registrations>>
    /\ ApiFrame

\* register_for_race: create_registration
RegisterCreate ==
    /\ api_local.op = "register" /\ api_local.pc = "create"
    /\ registrations' = [registrations EXCEPT ![api_local.race] = @ + 1]
    /\ api_local' = IF api_local.count + 1 >= MAX_PARTICIPANTS
                    THEN [api_local EXCEPT !.pc = "close"]
                    ELSE NoRequest
    /\ UNCHANGED races
    /\ ApiFrame

\* register_for_race: the registration that reaches MAX_PARTICIPANTS closes the race
RegisterClose ==
    /\ api_local.op = "register" /\ api_local.pc = "close"
    /\ races' = update_race_status(races, api_local.race, "REGISTRATION_CLOSED")
    /\ api_local' = NoRequest
    /\ UNCHANGED registrations
    /\ ApiFrame

\* unregister_from_race: get_race_by_id and the check of the status just read
UnregisterRead(r) ==
    /\ api_local.pc = "idle"
    /\ api_local' = IF races[r].status \notin RegistrationStatuses
                    THEN NoRequest
                    ELSE [op |-> "unregister", race |-> r, status |-> races[r].status,
                          count |-> 0, pc |-> "count"]
    /\ UNCHANGED <<races, registrations>>
    /\ ApiFrame

\* unregister_from_race: get_registration (a team that is not registered is refused) and
\* count_registrations_by_race
UnregisterCount ==
    /\ api_local.op = "unregister" /\ api_local.pc = "count"
    /\ api_local' = IF registrations[api_local.race] = 0
                    THEN NoRequest
                    ELSE [api_local EXCEPT !.count = registrations[api_local.race],
                                           !.pc = "delete"]
    /\ UNCHANGED <<races, registrations>>
    /\ ApiFrame

\* unregister_from_race: delete_registration
UnregisterDelete ==
    /\ api_local.op = "unregister" /\ api_local.pc = "delete"
    /\ registrations' = [registrations EXCEPT ![api_local.race] = @ - 1]
    /\ api_local' = [api_local EXCEPT !.pc = "reopen"]
    /\ UNCHANGED races
    /\ ApiFrame

\* unregister_from_race: a race that was read as closed and was full is opened again
UnregisterReopen ==
    /\ api_local.op = "unregister" /\ api_local.pc = "reopen"
    /\ races' = IF api_local.status = "REGISTRATION_CLOSED"
                   /\ api_local.count = MAX_PARTICIPANTS
                THEN update_race_status(races, api_local.race, "REGISTRATION_OPEN")
                ELSE races
    /\ api_local' = NoRequest
    /\ UNCHANGED registrations
    /\ ApiFrame

RegistrationRequest ==
    \/ \E r \in RaceIds : RegisterRead(r)
    \/ RegisterStartTime
    \/ RegisterCount
    \/ RegisterCreate
    \/ RegisterClose
    \/ \E r \in RaceIds : UnregisterRead(r)
    \/ UnregisterCount
    \/ UnregisterDelete
    \/ UnregisterReopen

\* the watchdog task, the clock and the registration requests of the API
NextRegistration ==
    \/ WatchdogPass
    \/ \E r \in RaceIds : TimePasses(r)
    \/ RegistrationRequest

SpecRegistration == Init /\ [][NextRegistration]_vars

-----------------------------------------------------------------------------
(* The comparison of the positions on its own: the cars as the sort of      *)
(* update() can find them after the car loop of a LastLap tick.             *)

CompareTick == 30

\* a car that is on the track or in the pit lane: total_distance was stored by this tick
OnTrackCars(n) ==
    {[NewCar(n) EXCEPT !.status = "Racing", !.lap = l, !.lap_percentage = p,
                       !.total_distance = l * LapScale + p] : l \in {1, 2}, p \in {3000, 6000}}
    \cup {[NewCar(n) EXCEPT !.status = "Pit", !.lap = l, !.lap_percentage = PitLapOffset,
                            !.total_distance = l * LapScale + PitLapOffset,
                            !.pit_time_remaining = PitTicks] : l \in {1, 2}}

\* a car that finished in an earlier tick: total_distance was snapped to its laps; and a
\* car that finished at the lap boundary in this tick: total_distance is the one stored
\* by the tick before
FinishedCars(n) ==
    {[NewCar(n) EXCEPT !.status = "Finished", !.lap = l, !.finished_time = t,
                       !.total_distance = l * LapScale] : l \in {2, 3}, t \in {10, 20}}
    \cup {[NewCar(n) EXCEPT !.status = "Finished", !.lap = 2, !.finished_time = CompareTick,
                            !.total_distance = LapScale + p] : p \in {5000, 9000}}

\* a car that ran out of fuel
DnfCars(n) ==
    {[NewCar(n) EXCEPT !.status = "Dnf", !.lap = l, !.lap_percentage = p, !.fuel = 0,
                       !.finished_time = 15,
                       !.total_distance = l * LapScale + p] : l \in {1, 2}, p \in {0, 5000}}

ComparedCars(n) == OnTrackCars(n) \cup FinishedCars(n) \cup DnfCars(n)

InitCompare ==
    /\ track_laps = RaceLaps
    /\ wetness = 0
    /\ cars \in {cs \in [1..Len(Grid) -> UNION {ComparedCars(n) : n \in 1..Len(Grid)}] :
                    \A n \in 1..Len(Grid) : cs[n].number = n}
    /\ run_state = "LastLap"
    /\ tick_count = CompareTick
    /\ events = <<>>
    /\ events_base = 0
    /\ race_id = NoRace
    /\ db_pool = FALSE
    /\ result = "None"
    /\ cmd_count = 0
    /\ forced_dnf = {}
    /\ races = [r \in RaceIds |-> [status |-> "REGISTRATION_OPEN", due |-> "far"]]
    /\ wd_pc = "idle"
    /\ has_ongoing = FALSE
    /\ race_state_is_running = FALSE
    /\ wd_local = NoLocal
    /\ started_count = 0
    /\ mutex = "free"
    /\ loop_pc = "idle"
    /\ tick_ord = <<>>
    /\ cmd_parts = <<>>
    /\ view = [elapsed |-> 0, race_status |-> "Paused", current_lap |-> 0]
    /\ sink = [pending |-> {}, stored |-> {}, failed |-> {}, rows |-> <<>>]
    /\ experience = <<>>
    /\ registrations = [r \in RaceIds |-> 0]
    /\ api_local = NoRequest

\* positions.sort_by(compare_cars) and the assignment of race_position
SortPositions ==
    /\ result = "None"
    /\ result' = "Sorted"
    /\ \E ord \in Orders(cars) :
          cars' = AssignPositions(cars, SortCars([i \in 1..Len(ord) |-> cars[ord[i]]], 2))
    /\ UNCHANGED <<track_laps, wetness, run_state, tick_count, events, events_base, race_id,
                   db_pool, cmd_count, forced_dnf>>
    /\ UNCHANGED <<wd_vars, mx_vars, sink, experience, reg_vars>>

SpecCompare == InitCompare /\ [][SortPositions]_vars

-----------------------------------------------------------------------------
(* The AI controller on its inputs: ai_pit_decision is a function of the    *)
(* car, the wetness of the track and the laps of the race.  The AI car of   *)
(* the grid is drawn over tires, fuel levels and laps on both sides of      *)
(* every threshold of the function.                                         *)

DecisionTick == 5

\* track.wetness, in 1/WetScale
DecisionWetness == {0, 200000, 200001, 650000, 650001, 1000000}

\* track.laps
DecisionLaps == {3, 8, 14, 15}

\* car.fuel, in 1/FuelScale
DecisionFuel == {98999, 99000, 100000}

\* a car on the track in a running race: its lap is below the laps of the race
DecisionCars(n) ==
    IF Grid[n].player_owned THEN {[NewCar(n) EXCEPT !.lap = 1, !.fuel = 98999]}
    ELSE {[NewCar(n) EXCEPT !.tire_type = t, !.fuel = f, !.lap = l, !.pit_request = pr,
                            !.target_tire = IF pr THEN "Medium" ELSE None] :
              t \in TireTypes, f \in DecisionFuel, l \in 0..2, pr \in BOOLEAN}

InitDecision ==
    /\ track_laps \in DecisionLaps
    /\ wetness \in DecisionWetness
    /\ cars \in {cs \in [1..Len(Grid) -> UNION {DecisionCars(n) : n \in 1..Len(Grid)}] :
                    \A n \in 1..Len(Grid) : cs[n].number = n}
    /\ run_state = "Running"
    /\ tick_count = DecisionTick
    /\ events = <<>>
    /\ events_base = 0
    /\ race_id = NoRace
    /\ db_pool = FALSE
    /\ result = "None"
    /\ cmd_count = 0
    /\ forced_dnf = {}
    /\ races = [r \in RaceIds |-> [status |-> "REGISTRATION_OPEN", due |-> "far"]]
    /\ wd_pc = "idle"
    /\ has_ongoing = FALSE
    /\ race_state_is_running = FALSE
    /\ wd_local = NoLocal
    /\ started_count = 0
    /\ mutex = "free"
    /\ loop_pc = "idle"
    /\ tick_ord = <<>>
    /\ cmd_parts = <<>>
    /\ view = [elapsed |-> 0, race_status |-> "Paused", current_lap |-> 0]
    /\ sink = [pending |-> {}, stored |-> {}, failed |-> {}, rows |-> <<>>]
    /\ experience = <<>>
    /\ registrations = [r \in RaceIds |-> 0]
    /\ api_local = NoRequest

\* `--- Handle AI input ---` for the cars in turn
RECURSIVE AiInputs(_, _, _)
AiInputs(cs, evs, n) ==
    IF n > Len(cs) THEN [cars |-> cs, events |-> evs]
    ELSE AiInputs([cs EXCEPT ![n] = AiStep([car |-> cs[n], events |-> evs],
                                           wetness, tick_count).car],
                  AiStep([car |-> cs[n], events |-> evs], wetness, tick_count).events,
                  n + 1)

AiDecide ==
    /\ result = "None"
    /\ result' = "Decided"
    /\ cars' = AiInputs(cars, events, 1).cars
    /\ events' = AiInputs(cars, events, 1).events
    /\ sink' = Dispatched(events')
    /\ UNCHANGED <<track_laps, wetness, run_state, tick_count, events_base, race_id,
                   db_pool, cmd_count, forced_dnf>>
    /\ UNCHANGED <<wd_vars, mx_vars, experience, reg_vars>>

SpecDecision == InitDecision /\ [][AiDecide]_vars

-----------------------------------------------------------------------------
(* The track sample under a car: get_track_point_at_distance is a function  *)
(* of the car's lap_percentage.  Cars at full speed are drawn over the lap, *)
(* on both sides of every rounding boundary of the three samples, and the   *)
(* speed step of update() looks the sample up and brakes to its speed.      *)

\* car.lap_percentage, in 1/LapScale
TrackRatios == {0, 1, 1666, 1667, 4999, 5000, 8333, 8334, 9998, 9999}

TrackCars(n) ==
    {[NewCar(n) EXCEPT !.lap = 1, !.lap_percentage = p, !.total_distance = LapScale + p,
                       !.speed = max_speed(NewCar(n))] : p \in TrackRatios}

InitTrack ==
    /\ track_laps = RaceLaps
    /\ wetness = 0
    /\ cars \in {cs \in [1..Len(Grid) -> UNION {TrackCars(n) : n \in 1..Len(Grid)}] :
                    \A n \in 1..Len(Grid) : cs[n].number = n}
    /\ run_state = "Running"
    /\ tick_count = CompareTick
    /\ events = <<>>
    /\ events_base = 0
    /\ race_id = NoRace
    /\ db_pool = FALSE
    /\ result = "None"
    /\ cmd_count = 0
    /\ forced_dnf = {}
    /\ races = [r \in RaceIds |-> [status |-> "REGISTRATION_OPEN", due |-> "far"]]
    /\ wd_pc = "idle"
    /\ has_ongoing = FALSE
    /\ race_state_is_running = FALSE
    /\ wd_local = NoLocal
    /\ started_count = 0
    /\ mutex = "free"
    /\ loop_pc = "idle"
    /\ tick_ord = <<>>
    /\ cmd_parts = <<>>
    /\ view = [elapsed |-> 0, race_status |-> "Paused", current_lap |-> 0]
    /\ sink = [pending |-> {}, stored |-> {}, failed |-> {}, rows |-> <<>>]
    /\ experience = <<>>
    /\ registrations = [r \in RaceIds |-> 0]
    /\ api_local = NoRequest

\* update(): `slow down on corners` and `ramp up to max speed`, for every car
SlowDownOnCorners ==
    /\ result = "None"
    /\ result' = "Sampled"
    /\ cars' = [n \in DOMAIN cars |-> SpeedStep(cars[n])]
    /\ UNCHANGED <<track_laps, wetness, run_state, tick_count, events, events_base, race_id,
                   db_pool, cmd_count, forced_dnf>>
    /\ UNCHANGED <<wd_vars, mx_vars, sink, experience, reg_vars>>

SpecTrack == InitTrack /\ [][SlowDownOnCorners]_vars

-----------------------------------------------------------------------------
(* The results of a finished race: queries.rs save_race_results.  The field *)
(* is larger than the grid, so that positions beyond the tenth exist.       *)

\* cars of the field whose results are saved
MaxField == 11
NoAward == 0 - 1

\* a faulty variant: no minimum
calculate_experience_gain_no_minimum(position) ==
    50 - ((position - 1) * 5)

\* let exp = 50 - ((position - 1) * 5); exp.max(5)
calculate_experience_gain(position) ==
    Max(50 - ((position - 1) * 5), 5)

\* the finished field: car n holds position ((n + k) mod MaxField) + 1
ResultCars(k) ==
    [n \in 1..MaxField |->
        [NewCar(1) EXCEPT !.number = n, !.status = "Finished", !.lap = RaceLaps,
                          !.total_distance = RaceLaps * LapScale,
                          !.finished_time = MaxTicks,
                          !.race_position = ((n + k) % MaxField) + 1]]

InitResults ==
    /\ track_laps = RaceLaps
    /\ wetness = 0
    /\ cars \in {ResultCars(k) : k \in 0..(MaxField - 1)}
    /\ run_state = "Finished"
    /\ tick_count = MaxTicks
    /\ events = <<>>
    /\ events_base = 0
    /\ race_id = "R1"
    /\ db_pool = TRUE
    /\ result = "None"
    /\ cmd_count = 0
    /\ forced_dnf = {}
    /\ races = [r \in RaceIds |-> [status |-> IF r = "R1" THEN "ONGOING"
                                                ELSE "REGISTRATION_OPEN",
                                    due |-> IF r = "R1" THEN "past" ELSE "far"]]
    /\ wd_pc = "idle"
    /\ has_ongoing = FALSE
    /\ race_state_is_running = FALSE
    /\ wd_local = NoLocal
    /\ started_count = 0
    /\ mutex = "free"
    /\ loop_pc = "idle"
    /\ tick_ord = <<>>
    /\ cmd_parts = <<>>
    /\ view = [elapsed |-> 0, race_status |-> "Paused", current_lap |-> 0]
    /\ sink = [pending |-> {}, stored |-> {}, failed |-> {}, rows |-> <<>>]
    /\ experience = <<>>
    /\ registrations = [r \in RaceIds |-> 0]
    /\ api_local = NoRequest

\* one pass of `for car in cars.values()`: create_race_result and
\* award_driver_experience both returned Ok
SaveRaceResult ==
    /\ Len(experience) < Cardinality(DOMAIN cars)
    /\ experience' = Append(experience,
                            calculate_experience_gain(cars[Len(experience) + 1].race_position))
    /\ UNCHANGED <<race_vars, result, cmd_count, forced_dnf>>
    /\ UNCHANGED <<wd_vars, mx_vars, sink, reg_vars>>

\* one pass of the loop in which a write failed: logged, no experience for this driver
SaveRaceResultFails ==
    /\ Len(experience) < Cardinality(DOMAIN cars)
    /\ experience' = Append(experience, NoAward)
    /\ UNCHANGED <<race_vars, result, cmd_count, forced_dnf>>
    /\ UNCHANGED <<wd_vars, mx_vars, sink, reg_vars>>

NextResults ==
    \/ SaveRaceResult
    \/ SaveRaceResultFails

SpecResults == InitResults /\ [][NextResults]_vars

-----------------------------------------------------------------------------
(* The event sink: save_event_to_db spawns a task that owns the pool, a     *)
(* clone of the event and the race id; its outcome is only logged.          *)

\* ORDER BY time_offset_seconds ASC, created_at ASC: an insertion of row w into the rows
\* sorted so far, behind the rows that are not later than it
RECURSIVE InsertByTimeOffset(_, _)
InsertByTimeOffset(sorted, w) ==
    IF sorted = <<>> THEN <<w>>
    ELSE IF sorted[Len(sorted)].time_offset <= w.time_offset THEN Append(sorted, w)
    ELSE Append(InsertByTimeOffset(SubSeq(sorted, 1, Len(sorted) - 1), w), sorted[Len(sorted)])

RECURSIVE SortByTimeOffset(_)
SortByTimeOffset(rows) ==
    IF rows = <<>> THEN <<>>
    ELSE InsertByTimeOffset(SortByTimeOffset(SubSeq(rows, 1, Len(rows) - 1)), rows[Len(rows)])

\* queries.rs list_events_by_race; sink.rows is in the order of created_at
list_events_by_race(r) ==
    LET OfRace(w) == w.race = r
    IN  SortByTimeOffset(SelectSeq(sink.rows, OfRace))

\* a faulty variant: a failed write takes the event back out of the journal
WriteFailsRollsBack ==
    /\ \E w \in sink.pending :
          sink' = [sink EXCEPT !.pending = @ \ {w}, !.failed = @ \cup {w}]
    /\ events # <<>>
    /\ events' = SubSeq(events, 1, Len(events) - 1)
    /\ UNCHANGED <<track_laps, wetness, cars, run_state, tick_count, events_base, race_id,
                   db_pool, result, cmd_count, forced_dnf>>
    /\ UNCHANGED <<wd_vars, mx_vars, experience, reg_vars>>

\* the spawned task: queries::create_event(...).await returned Ok
WriteSucceeds ==
    /\ \E w \in sink.pending :
          sink' = [sink EXCEPT !.pending = @ \ {w}, !.stored = @ \cup {w},
                               !.rows = Append(@, w)]
    /\ UNCHANGED <<race_vars, result, cmd_count, forced_dnf>>
    /\ UNCHANGED <<wd_vars, mx_vars, experience, reg_vars>>

\* the spawned task: the write returned Err, eprintln!("Failed to save event ...")
WriteFails ==
    /\ \E w \in sink.pending :
          sink' = [sink EXCEPT !.pending = @ \ {w}, !.failed = @ \cup {w}]
    /\ UNCHANGED <<race_vars, result, cmd_count, forced_dnf>>
    /\ UNCHANGED <<wd_vars, mx_vars, experience, reg_vars>>

SinkTick == TickWithin(MaxSinkTicks)

\* one start-now request, made while the race of the configuration is loaded
SinkStartRaceNow ==
    /\ race_id = NoRace
    /\ StartRaceNow("R1")

\* the race of the configuration (no identity, no sink) or a race started from the store
\* (both), the simulation loop, a pit order and the outcomes of the writes
NextSink ==
    \/ SinkTick
    \/ Command(<<"start">>)
    \/ Command(<<"pit", "1", "SOFT">>)
    \/ SinkStartRaceNow
    \/ WriteSucceeds
    \/ WriteFails

SpecSink == Init /\ [][NextSink]_vars

-----------------------------------------------------------------------------
(* The Race State mutex (Arc<Mutex<RaceState>>).  The simulation loop holds *)
(* it over update() and get_client_view(), handle_command over the whole    *)
(* command, and a reader over its get_client_view().  The tick is followed  *)
(* in two halves, so that the state in the middle of a tick exists.         *)

\* the maximum of the cars' laps
RECURSIVE MaxLap(_, _)
MaxLap(cs, n) == IF n = 0 THEN 0 ELSE Max(cs[n].lap, MaxLap(cs, n - 1))

\* race.rs get_client_view: the elapsed ticks, the race status and the leader's lap
get_client_view ==
    [elapsed |-> tick_count, race_status |-> run_state,
     current_lap |-> MaxLap(cars, Cardinality(DOMAIN cars))]

\* update(), first half: the tick counter, the weather and the car loop
StoreCarLoop(loop, ord, wet, tick) ==
    /\ tick_count' = tick
    /\ wetness' = wet
    /\ cars' = loop.cars
    /\ events' = loop.events
    /\ tick_ord' = ord

\* update(), second half: the positions and update_race_finished
StoreFinish(fin) ==
    /\ cars' = fin.cars
    /\ events' = fin.events
    /\ run_state' = fin.run_state

\* let mut state_guard = game_state_clone_loop.lock().unwrap()
LoopLock ==
    /\ mutex = "free"
    /\ mutex' = "loop"
    /\ loop_pc' = "locked"
    /\ UNCHANGED <<race_vars, result, cmd_count, forced_dnf, tick_ord, cmd_parts, view, sink, experience, reg_vars>>
    /\ UNCHANGED wd_vars

LoopUpdateCars ==
    /\ mutex = "loop"
    /\ loop_pc = "locked"
    /\ IF run_state \in {"Running", "LastLap"}
       THEN /\ tick_count < MaxMutexTicks
            /\ loop_pc' = "cars_done"
            /\ \E ord \in Orders(cars) :
                  StoreCarLoop(CarLoop([cars |-> cars, events |-> events], ord, 1, run_state,
                                       update_weather(wetness, tick_count + 1), tick_count + 1),
                               ord, update_weather(wetness, tick_count + 1), tick_count + 1)
            /\ UNCHANGED run_state
       ELSE /\ loop_pc' = "updated"
            /\ UNCHANGED <<wetness, cars, run_state, tick_count, events, tick_ord>>
    /\ sink' = Dispatched(events')
    /\ UNCHANGED <<experience, reg_vars>>
    /\ UNCHANGED <<track_laps, events_base, race_id, db_pool, result, cmd_count, forced_dnf,
                   mutex, cmd_parts, view>>
    /\ UNCHANGED wd_vars

LoopFinishUpdate ==
    /\ mutex = "loop"
    /\ loop_pc = "cars_done"
    /\ loop_pc' = "updated"
    /\ tick_ord' = <<>>
    /\ StoreFinish(SortAndFinish([cars |-> cars, events |-> events], tick_ord, tick_count))
    /\ sink' = Dispatched(events')
    /\ UNCHANGED <<experience, reg_vars>>
    /\ UNCHANGED <<track_laps, wetness, tick_count, events_base, race_id, db_pool, result,
                   cmd_count, forced_dnf, mutex, cmd_parts, view>>
    /\ UNCHANGED wd_vars

\* client_view_opt = Some(state_guard.get_client_view()), then the guard is dropped
LoopViewUnlock ==
    /\ mutex = "loop"
    /\ loop_pc = "updated"
    /\ view' = get_client_view
    /\ loop_pc' = "idle"
    /\ mutex' = "free"
    /\ result' = "Tick"
    /\ UNCHANGED <<race_vars, cmd_count, forced_dnf, tick_ord, cmd_parts, sink, experience, reg_vars>>
    /\ UNCHANGED wd_vars

\* a faulty variant: the command does not wait for the mutex
CommandLockWithoutMutex(parts) ==
    /\ cmd_count < MaxCommands
    /\ cmd_parts = <<>>
    /\ mutex' = "command"
    /\ cmd_parts' = parts
    /\ UNCHANGED <<race_vars, result, cmd_count, forced_dnf, loop_pc, tick_ord, view, sink, experience, reg_vars>>
    /\ UNCHANGED wd_vars

\* handle_command: let mut state_guard = state.lock().unwrap()
CommandLock(parts) ==
    /\ cmd_count < MaxCommands
    /\ mutex = "free"
    /\ mutex' = "command"
    /\ cmd_parts' = parts
    /\ UNCHANGED <<race_vars, result, cmd_count, forced_dnf, loop_pc, tick_ord, view, sink, experience, reg_vars>>
    /\ UNCHANGED wd_vars

\* handle_command: the match arms, then the guard is dropped at the return
CommandApply ==
    /\ mutex = "command"
    /\ cmd_count' = cmd_count + 1
    /\ LET out == handle_command(cmd_parts)
       IN  /\ cars' = out.cars
           /\ run_state' = out.run_state
           /\ forced_dnf' = out.forced_dnf
           /\ result' = out.msg
    /\ cmd_parts' = <<>>
    /\ mutex' = "free"
    /\ UNCHANGED <<track_laps, wetness, tick_count, events, events_base, race_id, db_pool,
                   loop_pc, tick_ord, view, sink, experience, reg_vars>>
    /\ UNCHANGED wd_vars

\* broadcast_state: state.lock().unwrap().get_client_view()
ReaderView ==
    /\ mutex = "free"
    /\ view' = get_client_view
    /\ UNCHANGED <<race_vars, result, cmd_count, forced_dnf, mutex, loop_pc, tick_ord,
                   cmd_parts, sink, experience, reg_vars>>
    /\ UNCHANGED wd_vars

MutexCommands == {<<"start">>, <<"pause">>, <<"order", "1", "relax">>, <<"pit", "1", "SOFT">>,
                  <<"order", "2", "DNF">>}

NextMutex ==
    \/ LoopLock
    \/ LoopUpdateCars
    \/ LoopFinishUpdate
    \/ LoopViewUnlock
    \/ \E parts \in MutexCommands : CommandLock(parts)
    \/ CommandApply
    \/ ReaderView

SpecMutex == Init /\ [][NextMutex]_vars

-----------------------------------------------------------------------------
(* The watchdog pass beside the mutex.  Each store call of check_races,     *)
(* load_upcoming_race and start_race (an `.await` on tdb or on              *)
(* load_scheduled_race) is a step, and each block that takes the Race State *)
(* lock is two: the lock, then the body of the block with the drop of the   *)
(* guard at its end.  wd_local keeps the race in hand between the steps.    *)

MaxLockTicks == 11

MaxLockCommands == 1

\* the positions of the pass at a store call
StorePoints == {"idle", "promote", "check", "start", "start_load", "start_db", "resync",
                "resync_load"}

\* the positions of the pass at a block that locks the Race State
LockPoints == {"install_upcoming", "check_running", "start_loaded", "start_install",
               "start_command", "resync_current", "resync_install"}

\* self.race_state.lock().unwrap()
WatchdogLock ==
    /\ wd_pc \in LockPoints
    /\ mutex = "free"
    /\ mutex' = "watchdog"
    /\ UNCHANGED <<race_vars, result, cmd_count, forced_dnf, loop_pc, tick_ord, cmd_parts,
                   view, sink, experience, reg_vars>>
    /\ UNCHANGED <<races, wd_pc, has_ongoing, race_state_is_running, wd_local, started_count>>

\* check_races, step 2: update_race_status(UPCOMING) and load_scheduled_race; `shown` is
\* the last race whose load succeeded
PromoteMark ==
    /\ wd_pc = "promote"
    /\ races' = [r \in RaceIds |-> IF r \in get_races_to_mark_upcoming
                                   THEN [races[r] EXCEPT !.status = "UPCOMING"]
                                   ELSE races[r]]
    /\ \E shown \in get_races_to_mark_upcoming \cup {NoRace} :
          IF shown # NoRace
          THEN /\ wd_local' = [race |-> shown, loaded |-> TRUE]
               /\ wd_pc' = "install_upcoming"
               /\ UNCHANGED result
          ELSE /\ wd_local' = NoLocal
               /\ wd_pc' = "check"
               /\ result' = IF get_races_to_mark_upcoming # {} THEN LoadFailedMessage
                                                                ELSE result
    /\ KeepRaceState
    /\ UNCHANGED <<has_ongoing, race_state_is_running, started_count, cmd_count>>
    /\ UNCHANGED <<mx_vars, sink, experience, reg_vars>>

\* load_upcoming_race: { *race_state_guard = new_race_state; }
InstallUpcoming ==
    /\ wd_pc = "install_upcoming"
    /\ mutex = "watchdog"
    /\ ReplaceRaceState(wd_local.race, "Paused")
    /\ result' = LoadedMessage
    /\ mutex' = "free"
    /\ wd_pc' = "check"
    /\ wd_local' = NoLocal
    /\ UNCHANGED <<races, has_ongoing, race_state_is_running, started_count, cmd_count>>
    /\ UNCHANGED <<loop_pc, tick_ord, cmd_parts, view, sink, experience, reg_vars>>

\* check_races, step 3: tdb::has_ongoing_race(&self.db_pool).await
CheckOngoing ==
    /\ wd_pc = "check"
    /\ wd_pc' = "check_running"
    /\ has_ongoing' = has_ongoing_race(races)
    /\ KeepRaceState
    /\ UNCHANGED <<races, race_state_is_running, wd_local, started_count, result, cmd_count>>
    /\ UNCHANGED <<mx_vars, sink, experience, reg_vars>>

\* let race_state_is_running = { let state_guard = ...; matches!(...) }
CheckRunning ==
    /\ wd_pc = "check_running"
    /\ mutex = "watchdog"
    /\ race_state_is_running' = (run_state \in {"Running", "LastLap"})
    /\ mutex' = "free"
    /\ wd_pc' = "start"
    /\ KeepRaceState
    /\ UNCHANGED <<races, has_ongoing, wd_local, started_count, result, cmd_count>>
    /\ UNCHANGED <<loop_pc, tick_ord, cmd_parts, view, sink, experience, reg_vars>>

\* tdb::get_races_to_start(&self.db_pool).await and the choice of the first race
StartPick ==
    /\ wd_pc = "start"
    /\ IF ~has_ongoing /\ ~race_state_is_running /\ get_races_to_start(races) # {}
       THEN \E r \in get_races_to_start(races) :
               /\ wd_local' = [race |-> r, loaded |-> FALSE]
               /\ wd_pc' = "start_loaded"
       ELSE /\ wd_local' = NoLocal
            /\ wd_pc' = "resync"
    /\ KeepRaceState
    /\ UNCHANGED <<races, has_ongoing, race_state_is_running, started_count, result, cmd_count>>
    /\ UNCHANGED <<mx_vars, sink, experience, reg_vars>>

\* start_race: let race_already_loaded = { ...; state_guard.race_id == Some(race_id) }
StartLoaded ==
    /\ wd_pc = "start_loaded"
    /\ mutex = "watchdog"
    /\ wd_local' = [wd_local EXCEPT !.loaded = (race_id = wd_local.race)]
    /\ wd_pc' = IF race_id = wd_local.race THEN "start_db" ELSE "start_load"
    /\ mutex' = "free"
    /\ KeepRaceState
    /\ UNCHANGED <<races, has_ongoing, race_state_is_running, started_count, result, cmd_count>>
    /\ UNCHANGED <<loop_pc, tick_ord, cmd_parts, view, sink, experience, reg_vars>>

\* start_race: RaceState::load_scheduled_race(...).await, Ok or Err
StartLoad ==
    /\ wd_pc = "start_load"
    /\ \E loaded \in BOOLEAN :
          IF loaded
          THEN wd_pc' = "start_install" /\ UNCHANGED <<result, wd_local>>
          ELSE wd_pc' = "resync" /\ result' = StartFailedMessage /\ wd_local' = NoLocal
    /\ KeepRaceState
    /\ UNCHANGED <<races, has_ongoing, race_state_is_running, started_count, cmd_count>>
    /\ UNCHANGED <<mx_vars, sink, experience, reg_vars>>

\* a faulty variant: the guard of the block is still alive at the store call that follows
StartInstallKeepsTheLock ==
    /\ wd_pc = "start_install"
    /\ mutex = "watchdog"
    /\ ReplaceRaceState(wd_local.race, "Paused")
    /\ wd_pc' = "start_db"
    /\ UNCHANGED <<races, has_ongoing, race_state_is_running, wd_local, started_count, result,
                   cmd_count>>
    /\ UNCHANGED <<mx_vars, sink, experience, reg_vars>>

\* start_race: { *race_state_guard = new_race_state; }
StartInstall ==
    /\ wd_pc = "start_install"
    /\ mutex = "watchdog"
    /\ ReplaceRaceState(wd_local.race, "Paused")
    /\ mutex' = "free"
    /\ wd_pc' = "start_db"
    /\ UNCHANGED <<races, has_ongoing, race_state_is_running, wd_local, started_count, result,
                   cmd_count>>
    /\ UNCHANGED <<loop_pc, tick_ord, cmd_parts, view, sink, experience, reg_vars>>

\* start_race: tdb::start_race(&self.db_pool, race_id).await
StartDb ==
    /\ wd_pc = "start_db"
    /\ races' = start_race_db(races, wd_local.race)
    /\ wd_pc' = "start_command"
    /\ KeepRaceState
    /\ UNCHANGED <<has_ongoing, race_state_is_running, wd_local, started_count, result, cmd_count>>
    /\ UNCHANGED <<mx_vars, sink, experience, reg_vars>>

\* start_race: handle_command("start"), under the lock the command takes
StartCommand ==
    /\ wd_pc = "start_command"
    /\ mutex = "watchdog"
    /\ run_state' = StartedRunState(run_state)
    /\ result' = StartedMessage(run_state)
    /\ started_count' = started_count + 1
    /\ mutex' = "free"
    /\ wd_pc' = "resync"
    /\ wd_local' = NoLocal
    /\ UNCHANGED <<race_id, db_pool, track_laps, wetness, cars, tick_count, events,
                   events_base, forced_dnf>>
    /\ UNCHANGED <<races, has_ongoing, race_state_is_running, cmd_count>>
    /\ UNCHANGED <<loop_pc, tick_ord, cmd_parts, view, sink, experience, reg_vars>>

\* check_races, step 4: tdb::get_upcoming_races(&self.db_pool).await and first()
ResyncQuery ==
    /\ wd_pc = "resync"
    /\ IF ~race_state_is_running /\ get_upcoming_races(races) # {}
       THEN \E r \in get_upcoming_races(races) :
               /\ wd_local' = [race |-> r, loaded |-> FALSE]
               /\ wd_pc' = "resync_current"
       ELSE /\ wd_local' = NoLocal
            /\ wd_pc' = "idle"
    /\ KeepRaceState
    /\ UNCHANGED <<races, has_ongoing, race_state_is_running, started_count, result, cmd_count>>
    /\ UNCHANGED <<mx_vars, sink, experience, reg_vars>>

\* let current_race_id = { let state_guard = ...; state_guard.race_id }
ResyncCurrent ==
    /\ wd_pc = "resync_current"
    /\ mutex = "watchdog"
    /\ wd_local' = IF race_id = wd_local.race THEN NoLocal ELSE wd_local
    /\ wd_pc' = IF race_id = wd_local.race THEN "idle" ELSE "resync_load"
    /\ mutex' = "free"
    /\ KeepRaceState
    /\ UNCHANGED <<races, has_ongoing, race_state_is_running, started_count, result, cmd_count>>
    /\ UNCHANGED <<loop_pc, tick_ord, cmd_parts, view, sink, experience, reg_vars>>

\* load_upcoming_race: RaceState::load_scheduled_race(...).await, Ok or Err
ResyncLoad ==
    /\ wd_pc = "resync_load"
    /\ \E loaded \in BOOLEAN :
          IF loaded
          THEN wd_pc' = "resync_install" /\ UNCHANGED <<result, wd_local>>
          ELSE wd_pc' = "idle" /\ result' = LoadFailedMessage /\ wd_local' = NoLocal
    /\ KeepRaceState
    /\ UNCHANGED <<races, has_ongoing, race_state_is_running, started_count, cmd_count>>
    /\ UNCHANGED <<mx_vars, sink, experience, reg_vars>>

\* load_upcoming_race: { *race_state_guard = new_race_state; }
ResyncInstall ==
    /\ wd_pc = "resync_install"
    /\ mutex = "watchdog"
    /\ ReplaceRaceState(wd_local.race, "Paused")
    /\ result' = LoadedMessage
    /\ mutex' = "free"
    /\ wd_pc' = "idle"
    /\ wd_local' = NoLocal
    /\ UNCHANGED <<races, has_ongoing, race_state_is_running, started_count, cmd_count>>
    /\ UNCHANGED <<loop_pc, tick_ord, cmd_parts, view, sink, experience, reg_vars>>

\* one pass of check_races, store call by store call and block by block
LockedPass ==
    \/ WatchdogCancel
    \/ PromoteMark
    \/ WatchdogLock
    \/ InstallUpcoming
    \/ CheckOngoing
    \/ CheckRunning
    \/ StartPick
    \/ StartLoaded
    \/ StartLoad
    \/ StartInstall
    \/ StartDb
    \/ StartCommand
    \/ ResyncQuery
    \/ ResyncCurrent
    \/ ResyncLoad
    \/ ResyncInstall

\* the first ticks of the simulation loop
LockedLoop ==
    \/ tick_count < MaxLockTicks /\ LoopLock
    \/ LoopUpdateCars
    \/ LoopFinishUpdate
    \/ LoopViewUnlock

\* the watchdog, the clock, the simulation loop, an order and the event writes
NextLock ==
    \/ LockedPass
    \/ \E r \in RaceIds : TimePasses(r)
    \/ LockedLoop
    \/ cmd_count < MaxLockCommands /\ CommandLock(<<"order", "1", "relax">>)
    \/ CommandApply
    \/ WriteSucceeds
    \/ WriteFails

SpecLock == Init /\ [][NextLock]_vars

-----------------------------------------------------------------------------
(* The journal of a long race.  Only the appends of the simulation loop    *)
(* are kept: an AI car asks for a pit stop (PitRequest) and enters the pit *)
(* at the lap boundary (PitStop), lap after lap.  `events` holds the last  *)
(* JournalWindow events and events_base counts the ones before them, so    *)
(* events.len() is events_base + Len(events).                              *)

JournalLen == events_base + Len(events)
LastEventType == IF events = <<>> THEN None ELSE events[Len(events)].event_type

JournalKeep(evs) == IF Len(evs) > JournalWindow THEN Tail(evs) ELSE evs
JournalDrop(evs) == IF Len(evs) > JournalWindow THEN 1 ELSE 0

\* race.rs: the PitRequest event of the AI decision
JournalPitRequest ==
    /\ run_state = "Running"
    /\ JournalLen < JournalMaxEvents
    /\ LastEventType # "PitRequest"
    /\ tick_count' = tick_count + 1
    /\ LET evs == PushEvent(events, "PitRequest", 2, tick_count + 1)
       IN  /\ events' = JournalKeep(evs)
           /\ events_base' = events_base + JournalDrop(evs)
    /\ UNCHANGED <<track_laps, wetness, cars, run_state, race_id, db_pool, result, cmd_count,
                   forced_dnf>>
    /\ UNCHANGED wd_vars
    /\ sink' = Dispatched(events')
    /\ UNCHANGED <<experience, reg_vars>>
    /\ UNCHANGED mx_vars

\* race.rs: the PitStop event of the pit entry, in the tick of the request or a later one
JournalPitStop ==
    /\ run_state = "Running"
    /\ JournalLen < JournalMaxEvents
    /\ LastEventType = "PitRequest"
    /\ LET evs == PushEvent(events, "PitStop", 2, tick_count)
       IN  /\ events' = JournalKeep(evs)
           /\ events_base' = events_base + JournalDrop(evs)
    /\ UNCHANGED <<track_laps, wetness, cars, run_state, tick_count, race_id, db_pool, result,
                   cmd_count, forced_dnf>>
    /\ UNCHANGED wd_vars
    /\ sink' = Dispatched(events')
    /\ UNCHANGED <<experience, reg_vars>>
    /\ UNCHANGED mx_vars

NextJournal ==
    \/ Command(<<"start">>)
    \/ JournalPitRequest
    \/ JournalPitStop

SpecJournal == Init /\ [][NextJournal]_vars

-----------------------------------------------------------------------------
(* Properties of the scheduled races *)

OngoingRaces == {r \in RaceIds : races[r].status = "ONGOING"}

\* C1: in every reachable state, under any interleaving of watchdog passes, start-now
\* requests and race completions, at most one race record has status ONGOING.
AtMostOneOngoing == Cardinality(OngoingRaces) <= 1

\* the watchdog's step 3 is about to run with two due UPCOMING races and none ONGOING
TwoDueUpcoming ==
    /\ wd_pc = "start"
    /\ \A r \in RaceIds : races[r].status = "UPCOMING" /\ races[r].due = "past"

\* C2 as stated: with two due UPCOMING races and no ONGOING race, the pass leaves exactly
\* one of them ONGOING and the other UPCOMING, and a race is started only when no other
\* race is ONGOING (the other one waits until the first is FINISHED).
OnePassStartsExactlyOne ==
    [][ /\ (TwoDueUpcoming /\ WatchdogStart) =>
              /\ Cardinality({r \in RaceIds : races'[r].status = "ONGOING"}) = 1
              /\ Cardinality({r \in RaceIds : races'[r].status = "UPCOMING"}) = 1
        /\ \A r \in RaceIds :
              (WatchdogStart /\ races[r].status # "ONGOING" /\ races'[r].status = "ONGOING")
                 => \A q \in RaceIds \ {r} : races[q].status # "ONGOING"
      ]_vars

\* C2, amended: with two due UPCOMING races and no ONGOING race, step 3 of the pass either
\* starts exactly one of them (started_count becomes 1, the other stays UPCOMING) or, when
\* the load fails or a race is running in memory, starts none and leaves the records as
\* they are; the watchdog starts a race only when no other race is ONGOING, and at most
\* one per pass.
OnePassStartsAtMostOne ==
    [][ /\ (TwoDueUpcoming /\ WatchdogStart) =>
              \/ /\ started_count' = 1
                 /\ Cardinality({r \in RaceIds : races'[r].status = "ONGOING"}) = 1
                 /\ Cardinality({r \in RaceIds : races'[r].status = "UPCOMING"}) = 1
              \/ /\ started_count' = 0
                 /\ races' = races
        /\ \A r \in RaceIds :
              (WatchdogStart /\ races[r].status # "ONGOING" /\ races'[r].status = "ONGOING")
                 => \A q \in RaceIds \ {r} : races[q].status # "ONGOING"
        /\ WatchdogPass => started_count' <= 1
      ]_vars

\* the pass has started one of two due UPCOMING races
OneStartedOtherWaiting ==
    /\ wd_pc = "resync"
    /\ started_count = 1
    /\ \E r \in RaceIds :
          /\ races[r].status = "ONGOING"
          /\ \A q \in RaceIds \ {r} : races[q].status = "UPCOMING" /\ races[q].due = "past"

-----------------------------------------------------------------------------
(* Properties of one loaded race *)

\* C3: run_state starts Paused and every step changes it only along Paused->Running by
\* start, Running->Paused by pause, Running->LastLap by a tick, Running/LastLap->Finished
\* by a tick, or any state->Finished by stop; Finished is never left and LastLap never
\* returns to Running or Paused.
RunStateTransitions ==
    /\ run_state = "Paused"
    /\ [][ \/ run_state' = run_state
           \/ run_state = "Paused" /\ run_state' = "Running" /\ Command(<<"start">>)
           \/ run_state = "Running" /\ run_state' = "Paused" /\ Command(<<"pause">>)
           \/ run_state = "Running" /\ run_state' = "LastLap" /\ Tick
           \/ run_state \in {"Running", "LastLap"} /\ run_state' = "Finished" /\ Tick
           \/ run_state' = "Finished" /\ Command(<<"stop">>)
         ]_vars

\* a race that every car has ended was asked to start again and stays Finished
StartRefusedAfterFinish ==
    /\ run_state = "Finished"
    /\ result = "Race is already running or finished."
    /\ \A n \in DOMAIN cars : cars[n].status \in {"Finished", "Dnf"}

\* C4: in every reachable state the race_position values of the N cars are exactly
\* 1..N, each used once.
PositionsArePermutation ==
    /\ {cars[n].race_position : n \in DOMAIN cars} = 1..Len(cars)
    /\ \A m, n \in DOMAIN cars : cars[m].race_position = cars[n].race_position => m = n

\* the order has changed from the grid order, with a finished car classified
PositionsReordered ==
    /\ \E n \in DOMAIN cars : cars[n].race_position # n
    /\ \E n \in DOMAIN cars : cars[n].status = "Finished"
    /\ \E n \in DOMAIN cars : cars[n].status = "Pit"

\* C5: every car has fuel in [0,100], wear in [0,100], stress_level in [0,1] and
\* lap_percentage in [0,1), and the track wetness is in [0,1], in every reachable state,
\* the ticks of a pit entry and of a pit completion included.
QuantitiesInRange ==
    /\ wetness >= 0 /\ wetness <= WetScale
    /\ \A n \in DOMAIN cars :
          /\ cars[n].fuel >= 0 /\ cars[n].fuel <= FuelFull * FuelScale
          /\ cars[n].wear >= 0 /\ cars[n].wear <= WearMax * WearScale
          /\ cars[n].stress_level >= 0 /\ cars[n].stress_level <= StressScale
          /\ cars[n].lap_percentage >= 0 /\ cars[n].lap_percentage < LapScale

\* a commanded pit stop with a fuel target has completed, with a quantity at each clamp
PitCompletedAtBounds ==
    /\ \E n \in DOMAIN cars :
          /\ cars[n].player_owned
          /\ cars[n].status = "Racing"
          /\ cars[n].target_fuel = NoFuel
          /\ cars[n].fuel = FuelFull * FuelScale
          /\ \E i \in DOMAIN events :
                events[i].event_type = "PitStop" /\ events[i].car_number = n
    /\ \E n \in DOMAIN cars : cars[n].wear = WearMax * WearScale
    /\ \E n \in DOMAIN cars : cars[n].stress_level = 0

\* C6 as stated: every car whose status is Finished has lap >= track.laps and
\* finished_time > 0.
FinishedCarsCompletedAllLaps ==
    \A n \in DOMAIN cars :
        cars[n].status = "Finished" => cars[n].lap >= track_laps /\ cars[n].finished_time > 0

\* C6, amended: every car whose status is Finished has finished_time > 0 and has either
\* completed all the laps or crossed a lap boundary (lap >= 1) after some car had
\* completed all the laps.
FinishedCarsCrossedTheLine ==
    \A n \in DOMAIN cars :
        cars[n].status = "Finished" =>
            /\ cars[n].finished_time > 0
            /\ \/ cars[n].lap >= track_laps
               \/ /\ cars[n].lap >= 1
                  /\ run_state \in {"LastLap", "Finished"}
                  /\ \E m \in DOMAIN cars \ {n} : cars[m].lap >= track_laps

\* a lapped car has finished behind a car that completed all the laps
LappedCarFinished ==
    \E n, m \in DOMAIN cars :
        /\ cars[n].status = "Finished" /\ cars[n].lap < track_laps
        /\ cars[m].status = "Finished" /\ cars[m].lap >= track_laps

\* C7: every car whose status is Dnf has finished_time > 0, and either its fuel is 0 or
\* it was forced to Dnf by an `order <car> dnf` command.
DnfCarsHaveFinishedTime ==
    \A n \in DOMAIN cars :
        cars[n].status = "Dnf" =>
            /\ cars[n].finished_time > 0
            /\ (cars[n].fuel = 0 \/ n \in forced_dnf)

\* the commands of the environment that the dispatcher must reject: unknown commands,
\* unknown or unparsable car numbers, unknown tires and styles, unparsable or
\* out-of-range fuel values
RejectedCommands == {
    <<"order", "99", "relax">>, <<"order", "abc", "relax">>, <<"order", "1", "fast">>,
    <<"pit", "1", "slick">>, <<"pit", "1", "refuel", "150">>, <<"pit", "1", "refuel", "abc">>,
    <<"pit", "1", "soft", "refuel", "-1">>, <<"pit", "99", "soft">>, <<"pit", "abc", "soft">>,
    <<"pit", "1", "refuel">>, <<"pit", "1">>,
    <<"nopit", "1">>, <<"status", "1">>, <<"start", "now">> }

Diagnostics == {"Invalid car number", "Car number not found", "Invalid driving style",
                "Invalid target tire type", "Invalid target fuel level",
                "Invalid pit command", "Unknown command"}

\* C9: a command that is unknown, names a car not in the race, has an unparsable car
\* number or fuel value, an unknown tire or style, or a fuel value outside [0,100]
\* returns a diagnostic and leaves run_state, every car field, tick_count and the
\* journal unchanged.
RejectedCommandsChangeNothing ==
    [][ \A parts \in RejectedCommands :
            Command(parts) => (result' \in Diagnostics /\ UNCHANGED race_vars) ]_vars

\* a command was rejected in a running race with a car in the pit
RejectedWhileRacing ==
    /\ result \in Diagnostics
    /\ run_state = "Running"
    /\ tick_count > 0
    /\ \E n \in DOMAIN cars : cars[n].status = "Pit"

\* C10: every command that changes the Race State appends exactly one event to the
\* journal in the same step.
ChangingCommandsAppendOneEvent ==
    [][ (cmd_count' = cmd_count + 1 /\ <<cars, run_state>>' # <<cars, run_state>>)
            => (Len(events') = Len(events) + 1 /\ SubSeq(events', 1, Len(events)) = events)
      ]_vars

-----------------------------------------------------------------------------
(* Properties of the journal *)

\* C8: the event at index i has id = i for any number of appended events, time_offset
\* is non-decreasing along the journal, and every later journal has every earlier one as
\* an unchanged prefix.
JournalIsAppendOnly ==
    /\ [](\A i \in DOMAIN events : events[i].id = events_base + i - 1)
    /\ [](\A i, j \in DOMAIN events :
             i < j => events[i].time_offset <= events[j].time_offset)
    /\ [][ /\ events_base' + Len(events') >= JournalLen
           /\ events_base' >= events_base
           /\ \A i \in DOMAIN events :
                 events_base + i > events_base' => events'[events_base + i - events_base'] = events[i]
         ]_vars

-----------------------------------------------------------------------------
(* Properties of the commands *)

\* C11: for a car with an accepted pit request, a following `nopit <n>` clears
\* pit_request, target_tire and target_fuel (so that the car does not enter the pit at
\* its next lap boundary).
NopitClearsPitRequest ==
    [][ (Command(<<"nopit", "1">>) /\ cars[1].pit_request) =>
            /\ ~cars'[1].pit_request
            /\ cars'[1].target_tire = None
            /\ cars'[1].target_fuel = NoFuel
      ]_vars

\* the accepted style orders of the environment, with the style each one names
StyleOrders == { [parts |-> <<"order", "1", "relax">>, n |-> 1, style |-> "Relax"],
                 [parts |-> <<"order", "1", "Aggressive">>, n |-> 1, style |-> "Aggressive"] }

\* C12: an accepted `order <n> <style>` sets car n's driving_style to that style and
\* changes nothing else: the car's other fields, every other car, run_state, tick_count
\* and the rest of the race state are unchanged, whatever the style was before.
OrderChangesOnlyStyle ==
    [][ \A o \in StyleOrders :
            Command(o.parts) =>
                /\ cars' = [cars EXCEPT ![o.n].driving_style = o.style]
                /\ result' = "Driving style set"
                /\ UNCHANGED <<track_laps, wetness, run_state, tick_count, events, events_base,
                               race_id, db_pool>>
      ]_vars

\* the style of a car was changed during the race, while another car was in the pit
StyleOrderedWhileRacing ==
    /\ result = "Driving style set"
    /\ cars[1].driving_style = "Relax"
    /\ run_state = "Running"
    /\ tick_count > 0
    /\ \E n \in DOMAIN cars : cars[n].status = "Pit"

-----------------------------------------------------------------------------
(* Properties of the watchdog *)

PromotedRaceIsLoadedPaused ==
    [][ WatchdogPromote =>
            \/ KeepRaceState
            \/ /\ race_id' \in get_races_to_mark_upcoming
               /\ races'[race_id'].status = "UPCOMING"
               /\ run_state' = "Paused"
               /\ tick_count' = 0
               /\ events' = <<>>
               /\ events_base' = 0
      ]_vars

PromotedOverStartedRace ==
    /\ wd_pc = "check"
    /\ race_id = "R2"
    /\ races["R2"].status = "UPCOMING"
    /\ races["R1"].status = "ONGOING"
    /\ run_state = "Paused"
    /\ tick_count = 0
    /\ events = <<>>

-----------------------------------------------------------------------------
(* Properties of the pit stop *)

PitEntryTick(n) ==
    LET stops == {i \in DOMAIN events :
                     events[i].event_type = "PitStop" /\ events[i].car_number = n}
    IN  events[CHOOSE i \in stops : \A j \in stops : j <= i].time_offset

\* C16: a pit stop lasts exactly PitTicks ticks: a car that entered the pit during
\* tick T is in the pit at the end of the ticks T..T+49 and leaves it for Racing in
\* tick T+50.
PitStopLastsFiftyTicks ==
    /\ [](\A n \in DOMAIN cars :
            cars[n].status = "Pit" => tick_count <= PitEntryTick(n) + PitTicks - 1)
    /\ [][ \A n \in DOMAIN cars :
                (cars[n].status = "Pit" /\ cars'[n].status = "Racing")
                    => tick_count' = PitEntryTick(n) + PitTicks
         ]_vars

-----------------------------------------------------------------------------
(* Properties of a whole race *)

CarFinishedLogged(n) ==
    \E i \in DOMAIN events : events[i].event_type = "CarFinished" /\ events[i].car_number = n

RaceIsOver ==
    /\ run_state = "Finished"
    /\ \A n \in DOMAIN cars : cars[n].status \in {"Finished", "Dnf"}
    /\ \A n \in DOMAIN cars : cars[n].status = "Finished" => CarFinishedLogged(n)

\* C17: a race that was started and is neither paused nor stopped reaches, by ticks
\* alone, run_state Finished with every car Finished or Dnf and a CarFinished event in
\* the journal for each Finished car; no race is cut short by the tick bound.
StartedRaceFinishes ==
    /\ (run_state = "Running") ~> RaceIsOver
    /\ [](run_state \in {"Running", "LastLap"} => tick_count < MaxRaceTicks)

RaceOverWithDnf ==
    /\ RaceIsOver
    /\ \E n \in DOMAIN cars : cars[n].status = "Finished"
    /\ \E n \in DOMAIN cars : cars[n].status = "Dnf"
    /\ \E i \in DOMAIN events : events[i].event_type = "PitStop"

-----------------------------------------------------------------------------
(* Properties of the Race State mutex *)

\* C18: ticks, commands and client-view snapshots are mutually atomic.  The mutex is
\* free exactly between critical sections; a command is applied, and a view is taken,
\* only while no tick is under way (the loop's own view is taken after its update is
\* complete); no half of a tick runs while a command holds the mutex; and when a
\* command returns, its changes and its result are in place together.
CriticalSectionsAreAtomic ==
    /\ [](mutex = "free" <=> (loop_pc = "idle" /\ cmd_parts = <<>>))
    /\ [](mutex = "loop" <=> loop_pc # "idle")
    /\ [](loop_pc = "cars_done" <=> tick_ord # <<>>)
    /\ [][ /\ CommandApply => (loop_pc = "idle" /\ mutex' = "free" /\ cmd_parts' = <<>>)
           /\ view' # view => (tick_ord = <<>> /\ cmd_parts = <<>>
                                /\ view' = get_client_view /\ loop_pc \in {"idle", "updated"})
           /\ (tick_count' # tick_count \/ tick_ord' # tick_ord) => cmd_parts = <<>>
           /\ (cmd_parts = <<>> /\ loop_pc = "idle" /\ loop_pc' = "idle")
                  => UNCHANGED <<cars, run_state, tick_count, events, wetness>>
         ]_vars

\* the loop is in the middle of its third tick, after a command, and the last view is
\* the one of the tick before
ViewOfLastTickWhileMidTick ==
    /\ loop_pc = "cars_done"
    /\ mutex = "loop"
    /\ cmd_count = MaxCommands
    /\ tick_count = 3
    /\ view.elapsed = 2
    /\ view.race_status = "Running"

-----------------------------------------------------------------------------
(* Properties of the event sink *)

Writes == sink.pending \cup sink.stored \cup sink.failed

NewWrites == {WriteOf(events'[i]) : i \in (Len(events) + 1)..Len(events')}

\* C19: an event is handed to the store exactly when the race has a race_id and a pool:
\* every event in the journal of such a race has its write, a race without them has none,
\* and a step hands over exactly the events it appends; a write that is pending belongs
\* to an event already in the journal, and the step in which a write succeeds or fails
\* changes no field of the Race State
EventWritesAreFireAndForget ==
    /\ [](\A w \in Writes : w.race # NoRace)
    /\ []((race_id # NoRace /\ db_pool) =>
             \A i \in DOMAIN events : WriteOf(events[i]) \in Writes)
    /\ [](\A w \in sink.pending : \E i \in DOMAIN events : WriteOf(events[i]) = w)
    /\ [][ /\ (Len(events') > Len(events)) =>
                 (Writes' \ Writes = IF race_id # NoRace /\ db_pool THEN NewWrites ELSE {})
           /\ (Writes' # Writes) => Len(events') > Len(events)
           /\ (sink' # sink /\ Writes' = Writes) =>
                 UNCHANGED <<race_vars, forced_dnf, result, cmd_count>> ]_vars

\* a write has failed, another is stored, a third is still pending, and the race runs on
WriteFailedWhileRaceRunsOn ==
    /\ sink.failed # {}
    /\ sink.stored # {}
    /\ sink.pending # {}
    /\ run_state = "Running"
    /\ tick_count = MaxSinkTicks

-----------------------------------------------------------------------------
(* Properties of a failed load *)

\* C20: a watchdog step whose load of a scheduled race fails (promote, start or resync)
\* leaves every field of the Race State as it was; in the start step the store is not
\* written either, and a race becomes ONGOING only in a step that has it loaded and
\* issues the start command
FailedLoadKeepsRaceState ==
    [][ /\ (wd_pc = "promote" /\ wd_pc' = "check" /\ result' = LoadFailedMessage)
              => KeepRaceState
        /\ (wd_pc = "start" /\ wd_pc' = "resync" /\ result' = StartFailedMessage)
              => (KeepRaceState /\ races' = races /\ started_count' = started_count)
        /\ (wd_pc = "resync" /\ wd_pc' = "idle" /\ result' = LoadFailedMessage)
              => KeepRaceState
        /\ \A r \in RaceIds :
              (races[r].status # "ONGOING" /\ races'[r].status = "ONGOING")
                 => /\ race_id' = r
                    /\ result' \in {StartedMessage("Paused"), StartedMessage("Running")}
                    /\ started_count' = started_count + 1 ]_vars

\* the start step has just failed to load a due race over a loaded, paused race: the due
\* race is not ONGOING, nothing runs and nothing was started
StartFailedOverLoadedRace ==
    /\ wd_pc = "resync"
    /\ result = StartFailedMessage
    /\ started_count = 0
    /\ race_id # NoRace
    /\ run_state = "Paused"
    /\ \E r \in get_races_to_start(races) : race_id # r /\ races[r].status # "ONGOING"

-----------------------------------------------------------------------------
(* Properties of the positions *)

\* C21: two cars that are both Finished at the end of a tick keep their relative order
\* by race_position at the end of the next tick.
FinishedOrderIsStable ==
    [][ \A a, b \in DOMAIN cars :
            (/\ tick_count' = tick_count + 1
             /\ cars[a].status = "Finished" /\ cars[b].status = "Finished"
             /\ cars[a].race_position < cars[b].race_position)
                => cars'[a].race_position < cars'[b].race_position ]_vars

ReverseOrdering(o) == IF o = "Less" THEN "Greater" ELSE IF o = "Greater" THEN "Less" ELSE "Equal"

AtMost(a, b) == compare_cars(a, b) \in {"Less", "Equal"}

\* C22: compare_cars is a total preorder over cars of any statuses: compare(a, b) is the
\* reverse of compare(b, a); a <= b and b <= c give a <= c; a Dnf car comes after every
\* car that is not Dnf; Finished cars are ordered by higher lap, then earlier
\* finished_time.
CompareCarsIsTotalPreorder ==
    \A a, b, c \in DOMAIN cars :
        /\ compare_cars(cars[a], cars[b]) = ReverseOrdering(compare_cars(cars[b], cars[a]))
        /\ (AtMost(cars[a], cars[b]) /\ AtMost(cars[b], cars[c])) => AtMost(cars[a], cars[c])
        /\ (cars[a].status # "Dnf" /\ cars[b].status = "Dnf")
              => compare_cars(cars[a], cars[b]) = "Less"
        /\ (cars[a].status = "Finished" /\ cars[b].status = "Finished")
              => compare_cars(cars[a], cars[b]) =
                    IF cars[a].lap # cars[b].lap THEN CmpDesc(cars[a].lap, cars[b].lap)
                    ELSE CmpAsc(cars[a].finished_time, cars[b].finished_time)

-----------------------------------------------------------------------------
(* Properties of the race results *)

\* the scale of the experience points, by position
ExperienceScale == <<50, 45, 40, 35, 30, 25, 20, 15, 10, 5>>

\* C23: the experience awarded for final position p >= 1 is 50 for position 1, 45 for
\* 2, down to 5 for position 10, and 5 for every position beyond 10.
ExperienceFollowsTheScale ==
    \A i \in DOMAIN experience :
        experience[i] # NoAward =>
            experience[i] = IF cars[i].race_position <= Len(ExperienceScale)
                            THEN ExperienceScale[cars[i].race_position]
                            ELSE 5

\* the winner got 50 points, the tenth 5, and a car beyond the tenth place 5 as well
AwardedBeyondTenthPlace ==
    /\ \E i \in DOMAIN experience : cars[i].race_position = 1 /\ experience[i] = 50
    /\ \E i \in DOMAIN experience : cars[i].race_position = 10 /\ experience[i] = 5
    /\ \E i \in DOMAIN experience : cars[i].race_position > 10 /\ experience[i] = 5

-----------------------------------------------------------------------------
(* Properties of the tick *)

\* C24: a tick while run_state is Paused or Finished leaves the whole Race State
\* unchanged; a tick while run_state is Running or LastLap increases tick_count by
\* exactly 1.  (A step that is not a command is a tick.)
TickOnlyRunsInARace ==
    [][ (cmd_count' = cmd_count) =>
            IF run_state \in {"Running", "LastLap"}
            THEN tick_count' = tick_count + 1
            ELSE UNCHANGED <<track_laps, wetness, cars, run_state, tick_count, events,
                             events_base, race_id, db_pool>> ]_vars

\* the loop ticked over a race that was paused after it had run
TickedWhilePaused ==
    /\ result = "Tick"
    /\ run_state = "Paused"
    /\ tick_count > 0
    /\ \E n \in DOMAIN cars : cars[n].speed > 0

-----------------------------------------------------------------------------
(* Properties of the lap boundary *)

\* the events appended by the step
NewEvents == {events'[i] : i \in (Len(events) + 1)..Len(events')}

\* the car's request stands when it reaches the boundary: it was set before the tick, or
\* the AI controller sets it in this tick
RequestAtBoundary(n) ==
    cars[n].pit_request \/ ai_pit_decision(cars[n], wetness', track_laps).pit

\* C25: a car goes from Racing to Pit only in a tick in which it crosses a lap boundary
\* with its pit request set and its incremented lap below track.laps; on entry the
\* request is cleared, pit_time_remaining is PitTicks and a PitStop event is appended.
\* A car that completes its final lap never enters the pit.
PitEntryOnlyAtLapBoundary ==
    /\ [](\A n \in DOMAIN cars : cars[n].status = "Pit" => cars[n].lap < track_laps)
    /\ [][ \A n \in DOMAIN cars :
             (cars[n].status = "Racing" /\ cars'[n].status = "Pit") =>
                /\ tick_count' = tick_count + 1
                /\ cars'[n].lap = cars[n].lap + 1
                /\ cars'[n].lap < track_laps
                /\ RequestAtBoundary(n)
                /\ ~cars'[n].pit_request
                /\ cars'[n].pit_time_remaining = PitTicks
                /\ \E ev \in NewEvents : /\ ev.event_type = "PitStop"
                                         /\ ev.car_number = n
                                         /\ ev.time_offset = tick_count' ]_vars

\* car 1 has just entered the pit on the request of a pit command
EnteredPitOnCommand ==
    /\ cars[1].status = "Pit"
    /\ cars[1].pit_time_remaining = PitTicks
    /\ cars[1].target_tire = "Soft"
    /\ ~cars[1].pit_request
    /\ events # <<>>
    /\ events[Len(events)].event_type = "PitStop"

\* C26: a Racing car that crosses a lap boundary in a tick that began in LastLap ends the
\* tick Finished, with lap_percentage 0 and finished_time = tick_count, whatever its
\* pit request and its lap; it does not enter the pit at that boundary.
LastLapCrossingFinishes ==
    [][ \A n \in DOMAIN cars :
            (/\ run_state = "LastLap"
             /\ tick_count' = tick_count + 1
             /\ cars[n].status = "Racing"
             /\ cars'[n].lap > cars[n].lap)
                => /\ cars'[n].status = "Finished"
                   /\ cars'[n].lap_percentage = 0
                   /\ cars'[n].finished_time = tick_count' ]_vars

\* C27: in the tick in which a car enters the pit the rest of its physics is skipped:
\* its fuel, wear and stress_level at the end of the tick are those it had before the
\* lap boundary was handled, which are those of the start of the tick.
PitEntrySkipsPhysics ==
    [][ \A n \in DOMAIN cars :
            (cars[n].status = "Racing" /\ cars'[n].status = "Pit")
                => /\ cars'[n].fuel = cars[n].fuel
                   /\ cars'[n].wear = cars[n].wear
                   /\ cars'[n].stress_level = cars[n].stress_level ]_vars

-----------------------------------------------------------------------------
(* Properties of the end of the race *)

\* C28: at the end of every tick of a race: if every car is Finished or Dnf, run_state
\* is Finished; otherwise, if a car is Finished, it is LastLap; otherwise it is
\* unchanged.  A race with one car Finished and every other car Dnf goes to Finished in
\* that tick, not to LastLap.
RunStateFollowsTheCars ==
    [][ (tick_count' = tick_count + 1) =>
            run_state' =
                IF \A n \in DOMAIN cars : cars'[n].status \in {"Finished", "Dnf"}
                THEN "Finished"
                ELSE IF \E n \in DOMAIN cars : cars'[n].status = "Finished"
                THEN "LastLap"
                ELSE run_state ]_vars

\* the race is over in the tick of its first and only finisher: every other car is Dnf
\* and no car finished before this tick
FinishedWithoutLastLap ==
    /\ run_state = "Finished"
    /\ result = "Tick"
    /\ Cardinality({n \in DOMAIN cars : cars[n].status = "Finished"}) = 1
    /\ \A n \in DOMAIN cars :
          \/ cars[n].status = "Dnf"
          \/ cars[n].status = "Finished" /\ cars[n].finished_time = tick_count
    /\ \A i \in DOMAIN events :
          events[i].event_type = "CarFinished" => events[i].time_offset = tick_count

-----------------------------------------------------------------------------
(* Properties of the retired cars *)

\* the car is Dnf at some point of the tick: before it, or by running out of fuel in it
DnfInTick(n) ==
    \/ cars[n].status = "Dnf"
    \/ \E e \in NewEvents : e.event_type = "Dnf" /\ e.car_number = n

\* C29: a car that is Dnf at some point of a tick, by running out of fuel in that tick or
\* by an earlier dnf order, is still Dnf at the end of the tick, and the tick appends no
\* CarFinished event for it.
DnfCarsAreNeverPromoted ==
    [][ (tick_count' = tick_count + 1) =>
            \A n \in DOMAIN cars :
                DnfInTick(n) =>
                    /\ cars'[n].status = "Dnf"
                    /\ ~\E e \in NewEvents : e.event_type = "CarFinished" /\ e.car_number = n ]_vars

-----------------------------------------------------------------------------
(* Properties of the AI controller *)

\* the cars the controller leaves alone
OutOfAiControl(n) ==
    cars[n].player_owned \/ cars[n].pit_request \/ cars[n].status = "Pit"

\* C30: for a player-owned car, and for any car with pit_request set or in Pit, a tick
\* never sets pit_request, target_tire or target_fuel and appends no PitRequest event:
\* a tick changes pit_request only by clearing it at the pit entry, and the targets only
\* by clearing them at the pit completion.
AiLeavesPlayerCarsAlone ==
    [][ (cmd_count' = cmd_count) =>
            \A n \in DOMAIN cars :
                OutOfAiControl(n) =>
                    /\ cars'[n].pit_request # cars[n].pit_request =>
                           /\ ~cars'[n].pit_request
                           /\ cars[n].status # "Pit"
                           /\ cars'[n].status = "Pit"
                    /\ <<cars'[n].target_tire, cars'[n].target_fuel>>
                           # <<cars[n].target_tire, cars[n].target_fuel>> =>
                           /\ cars[n].status = "Pit"
                           /\ cars'[n].status = "Racing"
                           /\ cars'[n].target_tire = None
                           /\ cars'[n].target_fuel = NoFuel
                    /\ ~\E e \in NewEvents :
                           e.event_type = "PitRequest" /\ e.car_number = n ]_vars

\* a player-owned car races on below the fuel level at which the controller calls its
\* cars in, with no request and no PitRequest event of its own
PlayerCarLowOnFuelUnrequested ==
    \E n \in DOMAIN cars :
        /\ cars[n].player_owned
        /\ cars[n].status = "Racing"
        /\ cars[n].fuel < 99 * FuelScale
        /\ result = "Tick"
        /\ ~cars[n].pit_request
        /\ cars[n].target_tire = None
        /\ cars[n].target_fuel = NoFuel
        /\ ~\E i \in DOMAIN events :
               events[i].event_type = "PitRequest" /\ events[i].car_number = n
        /\ \E i \in DOMAIN events : events[i].event_type = "PitRequest"

-----------------------------------------------------------------------------
(* Properties of the pit decision *)

\* the tire the claim names for a wetness and a number of remaining laps
ClaimedBestTire(wet, laps_remaining) ==
    IF wet * 100 > 65 * WetScale THEN "Wet"
    ELSE IF wet * 10 > 2 * WetScale THEN "Intermediate"
    ELSE IF laps_remaining > 12 THEN "Hard"
    ELSE IF laps_remaining > 6 THEN "Medium"
    ELSE "Soft"

OppositeSides(t, u) ==
    \/ t \in {"Intermediate", "Wet"} /\ u \in {"Soft", "Medium", "Hard"}
    \/ u \in {"Intermediate", "Wet"} /\ t \in {"Soft", "Medium", "Hard"}

\* C31: for an AI car that is Racing with no pending request the controller asks for a
\* stop exactly when fuel < 99 or the tire and the best tire are on opposite sides of the
\* wet/dry divide, and the request then carries fuel 100 and the best tire: Wet above
\* wetness 0.65, Intermediate above 0.2, else Hard / Medium / Soft for more than 12 /
\* more than 6 / fewer laps remaining.
PitDecisionFollowsTheRule ==
    [][ result' = "Decided" =>
            \A n \in DOMAIN cars :
                (~cars[n].player_owned /\ cars[n].status = "Racing" /\ ~cars[n].pit_request) =>
                    /\ cars'[n].pit_request <=>
                           \/ cars[n].fuel < 99 * FuelScale
                           \/ OppositeSides(cars[n].tire_type,
                                            ClaimedBestTire(wetness, track_laps - cars[n].lap))
                    /\ cars'[n].pit_request =>
                           /\ cars'[n].target_fuel = 100 * FuelScale
                           /\ cars'[n].target_tire =
                                  ClaimedBestTire(wetness, track_laps - cars[n].lap) ]_vars

\* the controller called in a car with 99 % fuel on wet tires on a track that has dried,
\* for the hard compound of a long remaining distance
CalledInForHardTires ==
    \E n \in DOMAIN cars :
        /\ result = "Decided"
        /\ ~cars[n].player_owned
        /\ cars[n].fuel = 99 * FuelScale
        /\ cars[n].tire_type = "Intermediate"
        /\ wetness * 10 = 2 * WetScale
        /\ cars[n].pit_request
        /\ cars[n].target_tire = "Hard"
        /\ cars[n].target_fuel = 100 * FuelScale
        /\ \E i \in DOMAIN events :
               events[i].event_type = "PitRequest" /\ events[i].car_number = n

-----------------------------------------------------------------------------
(* Properties of the lock and the store *)

\* the store's records of the races and of the events
StoreContents == <<[r \in RaceIds |-> races[r].status], sink.stored, sink.failed>>

\* C32: no task performs or awaits a store operation while it holds the Race State lock.
\* The watchdog holds the lock only inside its lock blocks, and its store calls (a race
\* status written, a query answered, a race loaded) are made with the lock released; the
\* simulation loop and the command dispatcher, which hold the lock over their whole
\* step, leave the store as it is and at most add pending writes; the write tasks store
\* their event without taking the lock.
NoStoreCallUnderTheLock ==
    [][ /\ mutex = "watchdog" => wd_pc \in LockPoints
        /\ (wd_pc \in StorePoints /\ wd_pc' # wd_pc) =>
               (mutex # "watchdog" /\ mutex' # "watchdog")
        /\ (wd_pc' # wd_pc /\ StoreContents' # StoreContents) => wd_pc \in StorePoints
        /\ (loop_pc' # loop_pc \/ cmd_parts' # cmd_parts) =>
               /\ StoreContents' = StoreContents
               /\ sink.pending \subseteq sink'.pending
        /\ (sink'.stored # sink.stored \/ sink'.failed # sink.failed) =>
               (mutex' = mutex /\ loop_pc' = loop_pc /\ wd_pc' = wd_pc) ]_vars

\* the simulation loop holds the lock in the middle of a tick that has spawned a write,
\* while an earlier write is stored and the watchdog is at a store call of its pass
StoreCallBesideLockedTick ==
    /\ mutex = "loop"
    /\ loop_pc = "cars_done"
    /\ sink.pending # {}
    /\ sink.stored # {}
    /\ wd_pc = "check"
    /\ has_ongoing

-----------------------------------------------------------------------------
(* Properties of the stored journal *)

\* the journal's events that are stored, in the order of the journal
StoredJournal ==
    LET Stored(ev) == WriteOf(ev) \in sink.stored
    IN  SelectSeq(events, Stored)

\* C33: for a race with an identity, the events the store lists for the race (by time
\* offset, then by creation time) are in the order of the in-memory journal, whatever the
\* order in which the write tasks ran.
StoreListsInJournalOrder ==
    (race_id # NoRace /\ db_pool) =>
        list_events_by_race(race_id) = [i \in DOMAIN StoredJournal |-> WriteOf(StoredJournal[i])]

-----------------------------------------------------------------------------
(* Properties of the track samples *)

\* the speed a car at full speed is braked to by sample i (1-based) of the track
SpeedAtSample(car, i) == (max_speed(car) * Max(SampledTrack[i], 150)) \div StatScale

\* round(lap_ratio * N) mod N, as a 1-based index; lap_ratio in 1/LapScale
RoundedSample(lap_ratio) ==
    LET N == Len(SampledTrack)
        twice == 2 * lap_ratio * N
        rounded == IF twice % (2 * LapScale) >= LapScale
                   THEN twice \div (2 * LapScale) + 1
                   ELSE twice \div (2 * LapScale)
    IN  (rounded % N) + 1

\* C34: for lap_ratio in [0, 1) the sample under the car is the one at index
\* round(lap_ratio * N) mod N, a valid index; it is the first sample at lap_ratio 0 and
\* the last sample just before the end of the lap.
TrackPointIsTheNearestSample ==
    [][ result' = "Sampled" =>
            \A n \in DOMAIN cars :
                /\ RoundedSample(cars[n].lap_percentage) \in DOMAIN SampledTrack
                /\ cars'[n].speed = SpeedAtSample(cars[n], RoundedSample(cars[n].lap_percentage))
                /\ cars[n].lap_percentage = 0 =>
                       cars'[n].speed = SpeedAtSample(cars[n], 1)
                /\ cars[n].lap_percentage = LapScale - 1 =>
                       cars'[n].speed = SpeedAtSample(cars[n], Len(SampledTrack)) ]_vars

-----------------------------------------------------------------------------
(* Properties of the watchdog and the running race *)

\* C35: no step of a watchdog pass (the load of a race marked UPCOMING, the start, the
\* load of the resynchronization) replaces the Race State while its run_state is Running
\* or LastLap.
WatchdogKeepsTheRunningRace ==
    [][ (wd_pc' # wd_pc /\ run_state \in {"Running", "LastLap"}) =>
            UNCHANGED race_vars ]_vars


\* the Race State is bound to race r and has been started
BoundAndStarted(r) == race_id = r /\ ~(run_state = "Paused" /\ tick_count = 0)

\* C36: at the end of a watchdog pass that started a race, the Race State is bound to a
\* race whose record is ONGOING and its run_state is Running; and whenever a race record
\* is ONGOING, the Race State is bound to that race and has been started.
StartedRaceIsTheRunningRace ==
    [][ /\ \A r \in RaceIds : races'[r].status = "ONGOING" => BoundAndStarted(r)'
        /\ (wd_pc = "resync" /\ wd_pc' = "idle" /\ started_count > 0) =>
               \E r \in RaceIds : /\ races'[r].status = "ONGOING"
                                  /\ race_id' = r
                                  /\ run_state' = "Running" ]_vars

-----------------------------------------------------------------------------
(* Properties of the due races *)

\* C37: every race that is UPCOMING with its start time reached is eventually started
\* and simulated to Finished, when the passes and the ticks keep occurring, the store
\* operations succeed and no command is issued
DueRaceIsEventuallyRun ==
    \A r \in RaceIds :
        (races[r].status = "UPCOMING" /\ races[r].due = "past")
            ~> (race_id = r /\ run_state = "Finished")

-----------------------------------------------------------------------------
(* Properties of the race status beside the registration requests *)

\* C38: a race record that has left registration (UPCOMING, ONGOING, FINISHED or
\* CANCELED) is never set back to REGISTRATION_OPEN or REGISTRATION_CLOSED
StatusNeverMovesBack ==
    [][ \A r \in RaceIds :
            races[r].status \notin RegistrationStatuses =>
                races'[r].status \notin RegistrationStatuses ]_vars

-----------------------------------------------------------------------------
(* Properties of the finished cars *)

\* C39: Finished is a terminal car status: no later tick and no later command changes
\* the status, the lap or the finished_time of a car that is Finished
FinishedIsTerminal ==
    [][ \A n \in DOMAIN cars :
            cars[n].status = "Finished" =>
                /\ cars'[n].status = "Finished"
                /\ cars'[n].lap = cars[n].lap
                /\ cars'[n].finished_time = cars[n].finished_time ]_vars

-----------------------------------------------------------------------------
(* Properties of the pit stops of a player's car *)

EntersPit(n) == cars[n].status # "Pit" /\ cars'[n].status = "Pit"
LeavesPit(n) == cars[n].status = "Pit" /\ cars'[n].status # "Pit"

\* C40: one accepted pit command causes at most one pit stop of a player-owned car: the
\* car enters Pit only on a request, the entry uses the request up, only an accepted pit
\* command sets a request, and every stop applies a target that was requested
PitStopsFollowTheCommands ==
    [][ \A n \in DOMAIN cars :
            cars[n].player_owned =>
                /\ EntersPit(n) => (cars[n].pit_request /\ ~cars'[n].pit_request)
                /\ (~cars[n].pit_request /\ cars'[n].pit_request) =>
                       result' = "Car queued for pit stop"
                /\ LeavesPit(n) =>
                       (cars[n].target_tire # None \/ cars[n].target_fuel # NoFuel) ]_vars

====
